---- MODULE Spec2Model ----
(***************************************************************************)
(* A model of the GitHub PRD bot (src/main.go): the webhook handler that   *)
(* dispatches commands, and the three tasks it spawns: processIssuePRD,    *)
(* processIssueSubTasks and processImplementFeature.                       *)
(*                                                                         *)
(* Text is a sequence of tokens (strings).  A token stands for a piece of  *)
(* text that the program never looks into; the separators the program      *)
(* does look at (" ", "\n", ",", "Files:") are tokens of their own.        *)
(* The message literals are those of the source with the apostrophes and   *)
(* backquotes left out.                                                    *)
(***************************************************************************)
EXTENDS Integers, Sequences, FiniteSets, TLC

\* ------------------------------------------------------------------ bounds

\* How many requests handleWebhook receives in Spec, SpecSub, SpecParse and
\* SpecLive.
MaxTasks == 1
\* How many requests handleWebhook receives in SpecRuns, where each asks for
\* the feature workflow, and in SpecPRD and SpecSeq, where each asks for the
\* PRD pipeline.
MaxRuns == 2
\* time.Now().Unix() ranges over 0..MaxTime.
MaxTime == 1
\* How many comments an issue holds when SpecSub begins.
MaxComments == 3

\* ------------------------------------------------- constants of src/main.go

CommandGeneratePRD == "need_prd"
CommandGenerateSubTask == "need_sub_task"
CommandImplementFeature == "implement_feature"
PRDIdentifier == <<"### PRD (Product Requirements Document)">>

\* githubAppName (GITHUB_APP_NAME, trimmed at start-up)
githubAppName == "bot"

\* ------------------------------------------------------------ package strings

IsSpace(c) == c \in {" ", "\n", "\t"}

RECURSIVE TrimLeft(_)
TrimLeft(s) ==
  IF s # <<>> /\ IsSpace(Head(s)) THEN TrimLeft(Tail(s)) ELSE s

RECURSIVE TrimRight(_)
TrimRight(s) ==
  IF s # <<>> /\ IsSpace(s[Len(s)])
  THEN TrimRight(SubSeq(s, 1, Len(s) - 1))
  ELSE s

\* strings.TrimSpace
TrimSpace(s) == TrimRight(TrimLeft(s))

\* strings.HasPrefix
HasPrefix(s, p) == Len(s) >= Len(p) /\ SubSeq(s, 1, Len(p)) = p

\* strings.TrimPrefix
TrimPrefix(s, p) == IF HasPrefix(s, p) THEN SubSeq(s, Len(p) + 1, Len(s)) ELSE s

\* strings.Contains
Contains(s, p) ==
  \E i \in 1..(Len(s) - Len(p) + 1) : SubSeq(s, i, i + Len(p) - 1) = p

RECURSIVE SplitAcc(_, _, _)
SplitAcc(s, sep, cur) ==
  IF s = <<>> THEN <<cur>>
  ELSE IF Head(s) = sep
       THEN <<cur>> \o SplitAcc(Tail(s), sep, <<>>)
       ELSE SplitAcc(Tail(s), sep, Append(cur, Head(s)))

\* strings.Split(s, sep) for a one-token separator: always at least one piece.
Split(s, sep) == SplitAcc(s, sep, <<>>)

RECURSIVE FieldsAcc(_, _)
FieldsAcc(s, cur) ==
  IF s = <<>> THEN (IF cur = <<>> THEN <<>> ELSE <<cur>>)
  ELSE IF IsSpace(Head(s))
       THEN (IF cur = <<>> THEN <<>> ELSE <<cur>>) \o FieldsAcc(Tail(s), <<>>)
       ELSE FieldsAcc(Tail(s), Append(cur, Head(s)))

\* strings.Fields: the maximal runs of non-space tokens.
Fields(s) == FieldsAcc(s, <<>>)

\* ------------------------------------------------------------ pure helpers

RECURSIVE TrimEach(_)
TrimEach(parts) ==
  IF parts = <<>> THEN <<>>
  ELSE <<TrimSpace(Head(parts))>> \o TrimEach(Tail(parts))

RECURSIVE parseFileLines(_)
parseFileLines(lines) ==
  IF lines = <<>> THEN <<>>
  ELSE LET line == TrimSpace(Head(lines)) IN
       IF HasPrefix(line, <<"Files:">>)
       THEN LET filesPart == TrimSpace(TrimPrefix(line, <<"Files:">>)) IN
            IF filesPart # <<>> THEN TrimEach(Split(filesPart, ",")) ELSE <<>>
       ELSE parseFileLines(Tail(lines))

\* A variant that forgets the prefix test and reads the first line as the list.
parseFilePathsNoPrefixTest(body) ==
  TrimEach(Split(TrimSpace(Head(Split(body, "\n"))), ","))

\* A variant that does not trim the entries.
parseFilePathsUntrimmed(body) ==
  LET lines == Split(body, "\n")
      at == {k \in 1..Len(lines) : HasPrefix(TrimSpace(lines[k]), <<"Files:">>)}
  IN IF at = {} THEN <<>>
     ELSE LET first == CHOOSE k \in at : \A j \in at : k <= j
              filesPart == TrimSpace(TrimPrefix(TrimSpace(lines[first]), <<"Files:">>))
          IN IF filesPart # <<>> THEN Split(filesPart, ",") ELSE <<>>

\* parseFilePathsFromIssue: the entries of the first "Files:" line.
parseFilePathsFromIssue(body) == parseFileLines(Split(body, "\n"))

\* Bot.parseComment: (command, mentioned).
\* A variant that accepts the mention wherever it stands among the tokens.
parseCommentAnywhere(body) ==
  LET botMention == <<"@" , githubAppName>>
      fields == Fields(TrimSpace(body))
      at == {k \in 1..(Len(fields) - 1) : fields[k] = botMention}
  IN IF at = {}
     THEN [command |-> <<>>, mentioned |-> FALSE]
     ELSE [command |-> fields[(CHOOSE k \in at : \A j \in at : k <= j) + 1],
           mentioned |-> TRUE]

\* A variant that takes the last token for the command.
parseCommentLastField(body) ==
  LET botMention == <<"@" , githubAppName>>
      fields == Fields(TrimSpace(body))
  IN IF Len(fields) < 2 \/ fields[1] # botMention
     THEN [command |-> <<>>, mentioned |-> FALSE]
     ELSE [command |-> fields[Len(fields)], mentioned |-> TRUE]

parseComment(body) ==
  LET botMention == <<"@" , githubAppName>>
      fields == Fields(TrimSpace(body))
  IN IF Len(fields) < 2 \/ fields[1] # botMention
     THEN [command |-> <<>>, mentioned |-> FALSE]
     ELSE [command |-> fields[2], mentioned |-> TRUE]

\* The value findPRDComment returns for "no comment": nil.
Nil == [id |-> 0, body |-> <<>>]

RECURSIVE findPRDScan(_, _)
findPRDScan(cs, i) ==
  IF i < 1 THEN Nil
  ELSE IF Contains(cs[i].body, PRDIdentifier)
       THEN [id |-> i, body |-> cs[i].body]
       ELSE findPRDScan(cs, i - 1)

\* A variant that scans from the oldest comment and returns the first match.
findPRDCommentOldestFirst(cs, listOK) ==
  LET marked == {k \in 1..Len(cs) : Contains(cs[k].body, PRDIdentifier)} IN
  IF ~listOK THEN [comment |-> Nil, err |-> TRUE]
  ELSE IF marked = {} THEN [comment |-> Nil, err |-> FALSE]
  ELSE LET i == CHOOSE k \in marked : \A j \in marked : k <= j IN
       [comment |-> [id |-> i, body |-> cs[i].body], err |-> FALSE]

\* findPRDComment: (comment, err) from the listing of the issue's comments;
\* listOK is whether client.Issues.ListComments succeeded.
findPRDComment(cs, listOK) ==
  IF ~listOK THEN [comment |-> Nil, err |-> TRUE]
  ELSE [comment |-> findPRDScan(cs, Len(cs)), err |-> FALSE]

\* --------------------------------------------------- the content generator

\* A generator response is a sequence of parts; only text parts carry text.
Part(txt) == [text |-> TRUE, val |-> txt]
Blob == [text |-> FALSE, val |-> <<>>]

RECURSIVE extractText(_)
\* extractText: the text parts of a response, concatenated.
extractText(resp) ==
  IF resp = <<>> THEN <<>>
  ELSE (IF Head(resp).text THEN Head(resp).val ELSE <<>>) \o extractText(Tail(resp))

\* One call of model.GenerateContent: the stage it belongs to, the arguments
\* formatted into its prompt, and what came back (r is [err, resp]).
Call(stage, args, r) ==
  [stage |-> stage, args |-> args, err |-> r.err,
   text |-> IF r.err THEN <<>> ELSE extractText(r.resp)]

Rule == "\n\n---\n\n"
FallbackLanguage == <<"the original language of the issue">>

\* A variant in which a failed translation fails the whole operation.
generatePRDTranslationFatal(title, body, readme, clientOK, rEn, rLang, rTr) ==
  LET promptEn == Call("draft", <<title, body, readme>>, rEn)
      englishPRD == extractText(rEn.resp)
      languageDetectionPrompt == Call("language", <<body>>, rLang)
      detectedLanguage ==
        IF ~rLang.err THEN extractText(rLang.resp) ELSE FallbackLanguage
      promptTranslate == Call("translate", <<detectedLanguage, englishPRD>>, rTr)
  IN IF ~clientOK
     THEN [content |-> <<>>, err |-> TRUE, calls |-> <<>>]
     ELSE IF rEn.err
     THEN [content |-> <<>>, err |-> TRUE, calls |-> <<promptEn>>]
     ELSE IF rTr.err
     THEN [content |-> <<>>, err |-> TRUE,
           calls |-> <<promptEn, languageDetectionPrompt, promptTranslate>>]
     ELSE [content |-> PRDIdentifier \o <<Rule>> \o englishPRD
                         \o <<Rule, "### PRD (">> \o TrimSpace(detectedLanguage)
                         \o <<")", "\n\n">> \o extractText(rTr.resp),
           err |-> FALSE,
           calls |-> <<promptEn, languageDetectionPrompt, promptTranslate>>]

\* A variant in which a failed language detection fails the whole operation.
generatePRDDetectionFatal(title, body, readme, clientOK, rEn, rLang, rTr) ==
  LET promptEn == Call("draft", <<title, body, readme>>, rEn)
      englishPRD == extractText(rEn.resp)
      languageDetectionPrompt == Call("language", <<body>>, rLang)
      detectedLanguage == extractText(rLang.resp)
      promptTranslate == Call("translate", <<detectedLanguage, englishPRD>>, rTr)
  IN IF ~clientOK
     THEN [content |-> <<>>, err |-> TRUE, calls |-> <<>>]
     ELSE IF rEn.err
     THEN [content |-> <<>>, err |-> TRUE, calls |-> <<promptEn>>]
     ELSE IF rLang.err
     THEN [content |-> <<>>, err |-> TRUE,
           calls |-> <<promptEn, languageDetectionPrompt>>]
     ELSE IF rTr.err
     THEN [content |-> PRDIdentifier \o <<Rule>> \o englishPRD,
           err |-> FALSE,
           calls |-> <<promptEn, languageDetectionPrompt, promptTranslate>>]
     ELSE [content |-> PRDIdentifier \o <<Rule>> \o englishPRD
                         \o <<Rule, "### PRD (">> \o TrimSpace(detectedLanguage)
                         \o <<")", "\n\n">> \o extractText(rTr.resp),
           err |-> FALSE,
           calls |-> <<promptEn, languageDetectionPrompt, promptTranslate>>]

\* A variant that goes on to the later stages when the draft has failed.
generatePRDDraftIgnored(title, body, readme, clientOK, rEn, rLang, rTr) ==
  LET promptEn == Call("draft", <<title, body, readme>>, rEn)
      englishPRD == IF rEn.err THEN <<>> ELSE extractText(rEn.resp)
      languageDetectionPrompt == Call("language", <<body>>, rLang)
      detectedLanguage ==
        IF ~rLang.err THEN extractText(rLang.resp) ELSE FallbackLanguage
      promptTranslate == Call("translate", <<detectedLanguage, englishPRD>>, rTr)
      translatedPRD == extractText(rTr.resp)
  IN IF ~clientOK
     THEN [content |-> <<>>, err |-> TRUE, calls |-> <<>>]
     ELSE IF rTr.err
     THEN [content |-> PRDIdentifier \o <<Rule>> \o englishPRD,
           err |-> FALSE,
           calls |-> <<promptEn, languageDetectionPrompt, promptTranslate>>]
     ELSE [content |-> PRDIdentifier \o <<Rule>> \o englishPRD
                         \o <<Rule, "### PRD (">> \o TrimSpace(detectedLanguage)
                         \o <<")", "\n\n">> \o translatedPRD,
           err |-> FALSE,
           calls |-> <<promptEn, languageDetectionPrompt, promptTranslate>>]

\* A variant whose English-only result leaves the marker out.
generatePRDEnglishUnmarked(title, body, readme, clientOK, rEn, rLang, rTr) ==
  LET promptEn == Call("draft", <<title, body, readme>>, rEn)
      englishPRD == extractText(rEn.resp)
      languageDetectionPrompt == Call("language", <<body>>, rLang)
      detectedLanguage ==
        IF ~rLang.err THEN extractText(rLang.resp) ELSE FallbackLanguage
      promptTranslate == Call("translate", <<detectedLanguage, englishPRD>>, rTr)
      translatedPRD == extractText(rTr.resp)
  IN IF ~clientOK
     THEN [content |-> <<>>, err |-> TRUE, calls |-> <<>>]
     ELSE IF rEn.err
     THEN [content |-> <<>>, err |-> TRUE, calls |-> <<promptEn>>]
     ELSE IF rTr.err
     THEN [content |-> englishPRD,
           err |-> FALSE,
           calls |-> <<promptEn, languageDetectionPrompt, promptTranslate>>]
     ELSE [content |-> PRDIdentifier \o <<Rule>> \o englishPRD
                         \o <<Rule, "### PRD (">> \o TrimSpace(detectedLanguage)
                         \o <<")", "\n\n">> \o translatedPRD,
           err |-> FALSE,
           calls |-> <<promptEn, languageDetectionPrompt, promptTranslate>>]

\* generatePRD(title, body, readme), given what the outside world answers:
\* clientOK (genai.NewClient) and the three answers rEn, rLang, rTr, each
\* [err, resp].  Returns the content, the error flag and the calls made.
generatePRD(title, body, readme, clientOK, rEn, rLang, rTr) ==
  LET promptEn == Call("draft", <<title, body, readme>>, rEn)
      englishPRD == extractText(rEn.resp)
      languageDetectionPrompt == Call("language", <<body>>, rLang)
      detectedLanguage ==
        IF ~rLang.err THEN extractText(rLang.resp) ELSE FallbackLanguage
      promptTranslate == Call("translate", <<detectedLanguage, englishPRD>>, rTr)
      translatedPRD == extractText(rTr.resp)
  IN IF ~clientOK
     THEN [content |-> <<>>, err |-> TRUE, calls |-> <<>>]
     ELSE IF rEn.err
     THEN [content |-> <<>>, err |-> TRUE, calls |-> <<promptEn>>]
     ELSE IF rTr.err
     THEN [content |-> PRDIdentifier \o <<Rule>> \o englishPRD,
           err |-> FALSE,
           calls |-> <<promptEn, languageDetectionPrompt, promptTranslate>>]
     ELSE [content |-> PRDIdentifier \o <<Rule>> \o englishPRD
                         \o <<Rule, "### PRD (">> \o TrimSpace(detectedLanguage)
                         \o <<")", "\n\n">> \o translatedPRD,
           err |-> FALSE,
           calls |-> <<promptEn, languageDetectionPrompt, promptTranslate>>]

SubTasksHeader == <<"### Generated Sub-tasks", "\n\n">>

\* generateSubTasks(prdContent), given clientOK and the answer r.
generateSubTasks(prdContent, clientOK, r) ==
  LET prompt == Call("subtasks", <<prdContent>>, r)
  IN IF ~clientOK
     THEN [content |-> <<>>, err |-> TRUE, calls |-> <<>>]
     ELSE IF r.err
     THEN [content |-> <<>>, err |-> TRUE, calls |-> <<prompt>>]
     ELSE [content |-> SubTasksHeader \o extractText(r.resp),
           err |-> FALSE, calls |-> <<prompt>>]

\* ------------------------------------------------------ inputs of the model

\* What the generator may answer at each stage.
Answers(resps) == [err : BOOLEAN, resp : resps]
DraftResponses == { <<Part(<<"Background">>), Blob, Part(<<"Goals">>)>> }
LanguageResponses == { <<Part(<<"Japanese", "\n">>)>> }
TranslateResponses == { <<Part(<<"translated">>)>> }
SubTaskResponses == { <<Part(<<"- [ ] task">>)>> }

Readme == <<"readme">>
DefaultBranch == <<"main">>

\* Issue bodies carried by the events.
IssueBodies ==
  { <<"Please", " ", "add", " ", "dark", " ", "mode">>,
    <<"Please", "\n", " ", "Files:", " ", "a.go", ",", " ", "b.go", " ", "\n",
      "Files:", "c.go">> }

Issues == [number : {1}, title : {<<"Add dark mode">>}, body : IssueBodies]

\* Comment bodies carried by issue_comment events.
CommentBodies ==
  { <<"@", githubAppName, " ", CommandGeneratePRD>>,
    <<"@", githubAppName, " ", CommandGenerateSubTask>>,
    <<"@", githubAppName, " ", CommandImplementFeature>>,
    <<" ", "@", githubAppName, "\n", CommandGeneratePRD, " ", "extra">>,
    <<"@", githubAppName>>,
    <<"@", githubAppName, " ", "deploy">>,
    <<"thanks", " ", "@", githubAppName, " ", CommandGeneratePRD>>,
    <<"@", "Bot", " ", CommandGeneratePRD>>,
    <<"@", githubAppName, ",", " ", CommandImplementFeature>>,
    <<"looks", " ", "good">> }

Events ==
  [type : {"issues"}, action : {"opened", "closed"},
   comment : {<<>>}, issue : Issues]
  \cup [type : {"issue_comment"}, action : {"created", "deleted"},
        comment : CommentBodies, issue : Issues]
  \cup [type : {"ping"}, action : {""}, comment : {<<>>}, issue : Issues]

\* Comments that may already be on the issue when the bot first sees it.
UserComment(body) == [by |-> 0, body |-> body]
InitialComments ==
  { <<>>,
    <<UserComment(<<"old">> \o PRDIdentifier \o <<Rule, "first">>),
      UserComment(PRDIdentifier \o <<Rule, "second">>),
      UserComment(<<"thanks">>)>> }

\* ------------------------------------------------------------------- state

VARIABLES
  configOK,   \* GITHUB_APP_ID and GITHUB_APP_PRIVATE_KEY are well formed
  comments,   \* the issue's comments, in creation order: [by, body]
  dirs,       \* the temporary directories that exist
  now,        \* the last value time.Now().Unix() returned
  issued,     \* how many installation tokens have been issued
  branches,   \* the branch names pushed to the remote
  prs,        \* the pull requests opened: [head, base]
  resp,       \* the status of the last webhook response
  kind,       \* per task: "free", "prd", "sub" or "feat"
  pc,         \* per task: where it is
  issue,      \* per task: the issue its event carried
  loc,        \* per task: its local variables; `listing` is what the issue
              \* held when the task listed its comments
  posts,      \* per task: its postComment calls, [body, ok]
  gen,        \* per task: its calls of the generator, [stage, args, err, text]
  cmds,       \* per task: its runCommand calls, [dir, name, args, ok]
  steps,      \* per task: the steps it took, [step, ok]
  req,        \* per request: what it carried and how it was answered
  logs,       \* per task: the lines it wrote to the log
  registry    \* Bot.commands

vars == <<configOK, comments, dirs, now, issued, branches, prs, resp,
          kind, pc, issue, loc, posts, gen, cmds, steps, req, logs, registry>>

\* The registry built by registerCommands.
commands ==
  [c \in {<<CommandGeneratePRD>>, <<CommandGenerateSubTask>>,
          <<CommandImplementFeature>>} |->
     CASE c = <<CommandGeneratePRD>> -> "prd"
       [] c = <<CommandGenerateSubTask>> -> "sub"
       [] c = <<CommandImplementFeature>> -> "feat"]

\* A request and the task it starts, if any, share a number.
Tasks == 1..(IF MaxRuns > MaxTasks THEN MaxRuns ELSE MaxTasks)

NoRequest ==
  [type |-> "", action |-> "", comment |-> <<>>, valid |-> FALSE,
   status |-> 0, client |-> "none", written |-> FALSE]

NoLocals ==
  [filesToModify |-> <<>>, tempDir |-> 0, deferred |-> FALSE, token |-> <<>>,
   branchName |-> <<>>, reason |-> "", prd |-> Nil, readme |-> <<>>,
   content |-> <<>>, url |-> <<>>, outcome |-> "", listing |-> <<>>]

Init ==
  /\ configOK \in BOOLEAN
  /\ comments \in InitialComments
  /\ dirs = {}
  /\ now = 0
  /\ issued = 0
  /\ branches = {}
  /\ prs = <<>>
  /\ resp = 0
  /\ kind = [t \in Tasks |-> "free"]
  /\ pc = [t \in Tasks |-> "idle"]
  /\ issue \in [Tasks -> {[number |-> 1, title |-> <<>>, body |-> <<>>]}]
  /\ loc = [t \in Tasks |-> NoLocals]
  /\ posts = [t \in Tasks |-> <<>>]
  /\ gen = [t \in Tasks |-> <<>>]
  /\ cmds = [t \in Tasks |-> <<>>]
  /\ steps = [t \in Tasks |-> <<>>]
  /\ req = [t \in Tasks |-> NoRequest]
  /\ logs = [t \in Tasks |-> <<>>]
  /\ registry = commands

\* --------------------------------------------------------- shared helpers

At(t, k, here) == kind[t] = k /\ pc[t] = here
Goto(t, there) == pc' = [pc EXCEPT ![t] = there]
Step(t, name, ok) ==
  steps' = [steps EXCEPT ![t] = Append(@, [step |-> name, ok |-> ok])]
Sent(t, calls) == gen' = [gen EXCEPT ![t] = @ \o calls]

\* log.Printf by task t, for the lines of one step.
Log(t, lines) == logs' = [logs EXCEPT ![t] = @ \o lines]

Num(t) == ToString(issue[t].number)

\* The lines Bot.postComment logs.
postCommentLog(t, ok) ==
  << <<"Attempting to post comment to issue #", Num(t)>>,
     IF ok
     THEN <<"Successfully created comment on issue #", Num(t)>>
     ELSE <<"Error creating comment on issue #", Num(t), ": ",
            "POST comments: 502">> >>

\* Bot.postComment: client.Issues.CreateComment either creates the comment
\* (ok) or returns an error, which is only logged.  `pre` holds the lines
\* the caller logged in the same step before the call.
postComment(t, body, ok, pre) ==
  /\ comments' = IF ok THEN Append(comments, [by |-> t, body |-> body])
                 ELSE comments
  /\ posts' = [posts EXCEPT ![t] = Append(@, [body |-> body, ok |-> ok])]
  /\ Log(t, pre \o postCommentLog(t, ok))

\* cmd.String(): the name and the arguments, separated by spaces.
RECURSIVE Join(_)
Join(args) ==
  IF args = <<>> THEN <<>>
  ELSE IF Len(args) = 1 THEN args[1]
  ELSE args[1] \o <<" ">> \o Join(Tail(args))

\* cmd.CombinedOutput(): what the process wrote, and its error.
CombinedOutput(ok) ==
  IF ok THEN <<"done">> ELSE <<"fatal: the command could not complete">>
ExitError == <<"exit status 1">>

\* The lines runCommand logs.
runCommandLog(dir, name, args, ok) ==
  << <<"Executing command in ", ToString(dir), ": ">> \o Join(<<<<name>>>> \o args),
     IF ok
     THEN <<"Command executed successfully. Output:\n">> \o CombinedOutput(ok)
     ELSE <<"Command failed with error: ">> \o ExitError
            \o <<"\nOutput:\n">> \o CombinedOutput(ok) >>

\* runCommand(dir, name, args...): ok is a zero exit status.
runCommand(t, name, args, ok) ==
  cmds' = [cmds EXCEPT ![t] =
             Append(@, [dir |-> loc[t].tempDir, name |-> name,
                        args |-> args, ok |-> ok,
                        output |-> CombinedOutput(ok)])]

\* createGitHubClient: fails exactly when the configuration is malformed.
createGitHubClient == configOK

\* `go handler(ctx, client, issue, repo, installationID)`
Spawn(t, k, e) ==
  /\ kind' = [kind EXCEPT ![t] = k]
  /\ pc' = [pc EXCEPT ![t] = "start"]
  /\ issue' = [issue EXCEPT ![t] = e.issue]

\* A variant that creates the client before it looks at the comment.
routeClientFirst(e, valid) ==
  IF ~valid THEN [status |-> 401, handler |-> "", client |-> "none"]
  ELSE IF e.type = "issues"
  THEN IF e.action # "opened"
       THEN [status |-> 200, handler |-> "", client |-> "none"]
       ELSE IF ~createGitHubClient
       THEN [status |-> 200, handler |-> "", client |-> "failed"]
       ELSE [status |-> 200, handler |-> "prd", client |-> "ok"]
  ELSE IF e.type # "issue_comment"
  THEN [status |-> 200, handler |-> "", client |-> "none"]
  ELSE IF e.action # "created"
  THEN [status |-> 200, handler |-> "", client |-> "none"]
  ELSE IF ~createGitHubClient
  THEN [status |-> 500, handler |-> "", client |-> "failed"]
  ELSE LET parsed == parseComment(e.comment) IN
       IF ~parsed.mentioned
       THEN [status |-> 200, handler |-> "", client |-> "ok"]
       ELSE IF parsed.command \notin DOMAIN registry
       THEN [status |-> 200, handler |-> "", client |-> "ok"]
       ELSE [status |-> 200, handler |-> registry[parsed.command],
             client |-> "ok"]

\* A variant that starts the PRD pipeline on every action of an issue.
routeAnyIssueAction(e, valid) ==
  IF ~valid THEN [status |-> 401, handler |-> "", client |-> "none"]
  ELSE IF e.type = "issues"
  THEN IF ~createGitHubClient
       THEN [status |-> 200, handler |-> "", client |-> "failed"]
       ELSE [status |-> 200, handler |-> "prd", client |-> "ok"]
  ELSE IF e.type # "issue_comment"
  THEN [status |-> 200, handler |-> "", client |-> "none"]
  ELSE IF e.action # "created"
  THEN [status |-> 200, handler |-> "", client |-> "none"]
  ELSE LET parsed == parseComment(e.comment) IN
       IF ~parsed.mentioned
       THEN [status |-> 200, handler |-> "", client |-> "none"]
       ELSE IF parsed.command \notin DOMAIN registry
       THEN [status |-> 200, handler |-> "", client |-> "none"]
       ELSE IF ~createGitHubClient
       THEN [status |-> 500, handler |-> "", client |-> "failed"]
       ELSE [status |-> 200, handler |-> registry[parsed.command],
             client |-> "ok"]

\* What handleWebhook does with a payload that is valid or not: the status
\* it answers with, the handler it starts ("" for none) and whether it
\* called createGitHubClient ("none", "ok" or "failed").
route(e, valid) ==
  IF ~valid THEN [status |-> 401, handler |-> "", client |-> "none"]
  ELSE IF e.type = "issues"
  THEN IF e.action # "opened"
       THEN [status |-> 200, handler |-> "", client |-> "none"]
       ELSE IF ~createGitHubClient
       THEN [status |-> 200, handler |-> "", client |-> "failed"]
       ELSE [status |-> 200, handler |-> "prd", client |-> "ok"]
  ELSE IF e.type # "issue_comment"
  THEN [status |-> 200, handler |-> "", client |-> "none"]
  ELSE IF e.action # "created"
  THEN [status |-> 200, handler |-> "", client |-> "none"]
  ELSE LET parsed == parseComment(e.comment) IN
       IF ~parsed.mentioned
       THEN [status |-> 200, handler |-> "", client |-> "none"]
       ELSE IF parsed.command \notin DOMAIN registry
       THEN [status |-> 200, handler |-> "", client |-> "none"]
       ELSE IF ~createGitHubClient
       THEN [status |-> 500, handler |-> "", client |-> "failed"]
       ELSE [status |-> 200, handler |-> registry[parsed.command],
             client |-> "ok"]

\* Bot.handleWebhook for one request, up to its return or to its `go`
\* statement.  A request that starts no task is answered in the same step;
\* one that starts a task is answered by WriteHeader.  The requests carry
\* events of evts and take the numbers of slots in turn.
handleWebhook(evts, slots) ==
  \E e \in evts, valid \in BOOLEAN, t \in slots :
    LET r == route(e, valid) IN
    /\ kind[t] = "free"
    /\ \A u \in slots : u < t => kind[u] # "free"
    /\ req' = [req EXCEPT ![t] =
                 [type |-> e.type, action |-> e.action, comment |-> e.comment,
                  valid |-> valid, status |-> r.status, client |-> r.client,
                  written |-> r.handler = ""]]
    /\ IF r.handler = ""
       THEN /\ kind' = [kind EXCEPT ![t] = "none"]
            /\ issue' = [issue EXCEPT ![t] = e.issue]
            /\ resp' = r.status
            /\ pc' = pc
       ELSE /\ Spawn(t, r.handler, e)
            /\ resp' = resp
    /\ UNCHANGED <<configOK, comments, dirs, now, issued, branches, prs,
                   loc, posts, gen, cmds, steps, logs, registry>>

\* A variant that answers only when the task it started has ended.
WriteHeaderAfterTask(t) ==
  /\ kind[t] \in {"prd", "sub", "feat"}
  /\ pc[t] = "done"
  /\ ~req[t].written
  /\ req' = [req EXCEPT ![t].written = TRUE]
  /\ resp' = req[t].status
  /\ UNCHANGED <<configOK, comments, dirs, now, issued, branches, prs,
                 kind, pc, issue, loc, posts, gen, cmds, steps, logs, registry>>

\* The rest of handleWebhook after the `go` statement: w.WriteHeader(200) on
\* a comment, and the implicit 200 of the return on an opened issue.
WriteHeader(t) ==
  /\ kind[t] \in {"prd", "sub", "feat"}
  /\ ~req[t].written
  /\ req' = [req EXCEPT ![t].written = TRUE]
  /\ resp' = req[t].status
  /\ UNCHANGED <<configOK, comments, dirs, now, issued, branches, prs,
                 kind, pc, issue, loc, posts, gen, cmds, steps, logs, registry>>

\* ---------------------------------------------------------- processIssuePRD

Finish(t, outcome) ==
  /\ Goto(t, "done")
  /\ loc' = [loc EXCEPT ![t].outcome = outcome]

\* A variant that goes on to generate whatever the listing holds.
PRDFindNoCheck(t) ==
  /\ At(t, "prd", "start")
  /\ \E listOK \in BOOLEAN :
       /\ Step(t, "list", listOK)
       /\ Goto(t, "readme")
       /\ loc' = [loc EXCEPT ![t].listing = comments]
       /\ Log(t, << <<"Processing need_prd for issue #", Num(t)>> >>)
  /\ UNCHANGED <<configOK, comments, dirs, now, issued, branches, prs, resp,
                 kind, issue, posts, gen, cmds, req, registry>>

\* A variant that ends the run when the listing fails.
PRDFindStopsOnError(t) ==
  /\ At(t, "prd", "start")
  /\ \E listOK \in BOOLEAN :
       LET found == findPRDComment(comments, listOK) IN
       /\ Step(t, "list", listOK)
       /\ IF found.err \/ found.comment # Nil
          THEN /\ Goto(t, "done")
               /\ loc' = [loc EXCEPT ![t].outcome =
                                       IF found.err THEN "failed" ELSE "skipped",
                                     ![t].listing = comments]
          ELSE /\ Goto(t, "readme")
               /\ loc' = [loc EXCEPT ![t].listing = comments]
       /\ Log(t, << <<"Processing need_prd for issue #", Num(t)>> >>)
  /\ UNCHANGED <<configOK, comments, dirs, now, issued, branches, prs, resp,
                 kind, issue, posts, gen, cmds, req, registry>>

\* The idempotency check: a PRD found ends the run.
PRDFind(t) ==
  /\ At(t, "prd", "start")
  /\ \E listOK \in BOOLEAN :
       LET found == findPRDComment(comments, listOK) IN
       /\ Step(t, "list", listOK)
       /\ IF found.comment # Nil
          THEN /\ Goto(t, "done")
               /\ loc' = [loc EXCEPT ![t].outcome = "skipped",
                                     ![t].listing = comments]
               /\ Log(t, << <<"Processing need_prd for issue #", Num(t)>>,
                            <<"Found PRD comment #", ToString(found.comment.id),
                              " for issue #", Num(t)>>,
                            <<"PRD already exists for issue #", Num(t),
                              ". Skipping generation.">> >>)
          ELSE /\ Goto(t, "readme")
               /\ loc' = [loc EXCEPT ![t].listing = comments]
               /\ Log(t, << <<"Processing need_prd for issue #", Num(t)>> >>)
  /\ UNCHANGED <<configOK, comments, dirs, now, issued, branches, prs, resp,
                 kind, issue, posts, gen, cmds, req, registry>>

\* A variant that tells the user when the README cannot be had.
PRDReadmeReports(t) ==
  /\ At(t, "prd", "readme")
  /\ \E fetchOK \in BOOLEAN, decodeOK \in BOOLEAN :
       /\ Step(t, "readme", fetchOK /\ decodeOK)
       /\ IF fetchOK /\ decodeOK
          THEN /\ Goto(t, "generate")
               /\ loc' = [loc EXCEPT ![t].readme = Readme]
               /\ Log(t, <<>>)
               /\ UNCHANGED <<comments, posts>>
          ELSE /\ Finish(t, "failed")
               /\ \E ok \in BOOLEAN :
                    postComment(t, <<"I could not read the README.">>, ok, <<>>)
  /\ UNCHANGED <<configOK, dirs, now, issued, branches, prs, resp,
                 kind, issue, gen, cmds, req, registry>>

\* A variant that goes on without the README when it cannot be had.
PRDReadmeContinues(t) ==
  /\ At(t, "prd", "readme")
  /\ \E fetchOK \in BOOLEAN, decodeOK \in BOOLEAN :
       /\ Step(t, "readme", fetchOK /\ decodeOK)
       /\ Goto(t, "generate")
       /\ loc' = [loc EXCEPT ![t].readme =
                    IF fetchOK /\ decodeOK THEN Readme ELSE <<>>]
       /\ Log(t, <<>>)
  /\ UNCHANGED <<configOK, comments, dirs, now, issued, branches, prs, resp,
                 kind, issue, posts, gen, cmds, req, registry>>

\* client.Repositories.GetContents and readme.GetContent
PRDReadme(t) ==
  /\ At(t, "prd", "readme")
  /\ \E fetchOK \in BOOLEAN, decodeOK \in BOOLEAN :
       /\ Step(t, "readme", fetchOK /\ decodeOK)
       /\ IF fetchOK /\ decodeOK
          THEN /\ Goto(t, "generate")
               /\ loc' = [loc EXCEPT ![t].readme = Readme]
               /\ Log(t, <<>>)
          ELSE /\ Finish(t, "failed")
               /\ Log(t, << IF ~fetchOK
                            THEN <<"Error getting README for owner/repo: ",
                                   "GET contents: 404">>
                            ELSE <<"Error decoding README content for owner/repo: ",
                                   "illegal base64 data">> >>)
  /\ UNCHANGED <<configOK, comments, dirs, now, issued, branches, prs, resp,
                 kind, issue, posts, gen, cmds, req, registry>>

PRDGenerate(t) ==
  /\ At(t, "prd", "generate")
  /\ \E clientOK \in BOOLEAN, rEn \in Answers(DraftResponses),
        rLang \in Answers(LanguageResponses),
        rTr \in Answers(TranslateResponses) :
       LET r == generatePRD(issue[t].title, issue[t].body, loc[t].readme,
                            clientOK, rEn, rLang, rTr) IN
       /\ Sent(t, r.calls)
       /\ Step(t, "generatePRD", ~r.err)
       /\ IF r.err
          THEN Finish(t, "failed")
          ELSE Goto(t, "post") /\ loc' = [loc EXCEPT ![t].content = r.content]
       /\ Log(t, (IF Len(r.calls) = 3 /\ r.calls[3].err /\ ~r.err
                  THEN << <<"Failed to generate translated PRD, falling back to English only: ",
                            "generator error">> >>
                  ELSE <<>>)
                 \o (IF r.err
                     THEN << <<"Error generating PRD for issue #", Num(t), ": ",
                               "generator error">> >>
                     ELSE <<>>))
  /\ UNCHANGED <<configOK, comments, dirs, now, issued, branches, prs, resp,
                 kind, issue, posts, cmds, req, registry>>

PRDPost(t) ==
  /\ At(t, "prd", "post")
  /\ \E ok \in BOOLEAN :
       /\ postComment(t, loc[t].content, ok, <<>>)
       /\ Step(t, "post", ok)
  /\ Finish(t, "completed")
  /\ UNCHANGED <<configOK, dirs, now, issued, branches, prs, resp,
                 kind, issue, gen, cmds, req, registry>>

\* ----------------------------------------------------- processIssueSubTasks

noPrdMessage ==
  <<"I could not find a PRD to generate sub-tasks from. Please run ",
    "@", githubAppName, " ", CommandGeneratePRD, " first.">>

\* A variant whose test is `err != nil && prdComment == nil`.
SubFindBothNeeded(t) ==
  /\ At(t, "sub", "start")
  /\ \E listOK \in BOOLEAN :
       LET found == findPRDComment(comments, listOK) IN
       /\ Step(t, "list", listOK)
       /\ IF found.err /\ found.comment = Nil
          THEN Goto(t, "noprd")
               /\ loc' = [loc EXCEPT ![t].listing = comments]
          ELSE Goto(t, "generate")
               /\ loc' = [loc EXCEPT ![t].prd = found.comment,
                                     ![t].listing = comments]
       /\ Log(t, << <<"Processing need_sub_task for issue #", Num(t)>> >>
                 \o (IF found.comment # Nil
                     THEN << <<"Found PRD comment #", ToString(found.comment.id),
                               " for issue #", Num(t)>> >>
                     ELSE <<>>))
  /\ UNCHANGED <<configOK, comments, dirs, now, issued, branches, prs, resp,
                 kind, issue, posts, gen, cmds, req, registry>>

SubFind(t) ==
  /\ At(t, "sub", "start")
  /\ \E listOK \in BOOLEAN :
       LET found == findPRDComment(comments, listOK) IN
       /\ Step(t, "list", listOK)
       /\ IF found.err \/ found.comment = Nil
          THEN Goto(t, "noprd")
               /\ loc' = [loc EXCEPT ![t].listing = comments]
          ELSE Goto(t, "generate")
               /\ loc' = [loc EXCEPT ![t].prd = found.comment,
                                     ![t].listing = comments]
       /\ Log(t, << <<"Processing need_sub_task for issue #", Num(t)>> >>
                 \o (IF found.comment # Nil
                     THEN << <<"Found PRD comment #", ToString(found.comment.id),
                               " for issue #", Num(t)>> >>
                     ELSE <<>>))
  /\ UNCHANGED <<configOK, comments, dirs, now, issued, branches, prs, resp,
                 kind, issue, posts, gen, cmds, req, registry>>

SubNoPRD(t) ==
  /\ At(t, "sub", "noprd")
  /\ \E ok \in BOOLEAN :
       /\ postComment(t, noPrdMessage, ok,
                      << <<"No PRD comment found for issue #", Num(t),
                           ". Aborting sub-task generation.">> >>)
       /\ Step(t, "post", ok)
  /\ Finish(t, "no_prd")
  /\ UNCHANGED <<configOK, dirs, now, issued, branches, prs, resp,
                 kind, issue, gen, cmds, req, registry>>

SubGenerate(t) ==
  /\ At(t, "sub", "generate")
  /\ \E clientOK \in BOOLEAN, r \in Answers(SubTaskResponses) :
       LET out == generateSubTasks(loc[t].prd.body, clientOK, r) IN
       /\ Sent(t, out.calls)
       /\ Step(t, "generateSubTasks", ~out.err)
       /\ IF out.err
          THEN Finish(t, "failed")
          ELSE Goto(t, "post") /\ loc' = [loc EXCEPT ![t].content = out.content]
       /\ Log(t, IF out.err
                 THEN << <<"Error generating sub-tasks for issue #", Num(t), ": ",
                           "generator error">> >>
                 ELSE <<>>)
  /\ UNCHANGED <<configOK, comments, dirs, now, issued, branches, prs, resp,
                 kind, issue, posts, cmds, req, registry>>

SubPost(t) ==
  /\ At(t, "sub", "post")
  /\ \E ok \in BOOLEAN :
       /\ postComment(t, loc[t].content, ok, <<>>)
       /\ Step(t, "post", ok)
  /\ Finish(t, "completed")
  /\ UNCHANGED <<configOK, dirs, now, issued, branches, prs, resp,
                 kind, issue, gen, cmds, req, registry>>

\* -------------------------------------------------- processImplementFeature

AckMessage(t) ==
  <<"Alright, I am on it! I will try to implement the feature for issue #",
    Num(t), ". Give me a few minutes...">>

\* errMsg of the fail closure: the reason, and nothing of err.
FailMessage(t, reason) ==
  <<"I failed to implement the feature for issue #", Num(t),
    ". **Reason:** ", reason, ".">>

\* A variant that leaves the link out.
FinalMessageNoLink(t, url) ==
  <<"I have created a Pull Request for issue #", Num(t), ".">>

FinalMessage(t, url) ==
  <<"I have created a Pull Request for issue #", Num(t),
    ". You can review it here: ">> \o url

ReasonNoFiles == "No files to modify. Please specify the files in the issue body using the format Files: file1.go, path/to/file2.go"
ReasonTempDir == "Could not create temporary directory"
ReasonToken == "Could not get installation token"
ReasonClone == "Could not clone repository"
ReasonBranch == "Could not create new branch"
ReasonGemini == "Gemini CLI failed to modify the files"
ReasonUserName == "Could not set git user name"
ReasonUserEmail == "Could not set git user email"
ReasonAdd == "Could not add files to git"
ReasonCommit == "Could not commit changes"
ReasonPush == "Could not push changes to remote"
ReasonPR == "Could not create Pull Request"

\* A variant without the deferred call.
ReturnNoDefer(t) == Goto(t, "done")

\* Where a return leads: to the deferred os.RemoveAll if it was registered.
Return(t) == Goto(t, IF loc[t].deferred THEN "cleanup" ELSE "done")

\* A variant that posts err along with the reason.
failWithError(t, reason, err, posted, pre) ==
  postComment(t, FailMessage(t, reason) \o <<" ">> \o err, posted,
              pre \o << <<"Operation failed for issue #", Num(t), ": ",
                          reason, ": ">> \o err >>)

\* The fail closure: it logs the reason and err, and posts the reason.
fail(t, reason, err, posted, pre) ==
  postComment(t, FailMessage(t, reason), posted,
              pre \o << <<"Operation failed for issue #", Num(t), ": ",
                          reason, ": ">> \o err >>)

\* A variant that lacks the return after fail(reason, err).
ProceedNoReturn(t, ok, next, reason, err, pre, l) ==
  IF ok
  THEN /\ Goto(t, next)
       /\ loc' = [loc EXCEPT ![t] = l]
       /\ Log(t, pre)
       /\ UNCHANGED <<comments, posts>>
  ELSE /\ \E posted \in BOOLEAN : fail(t, reason, err, posted, pre)
       /\ Goto(t, next)
       /\ loc' = [loc EXCEPT ![t] = [l EXCEPT !.reason = reason]]

\* How a stage ends: it goes on to `next`, or it calls fail(reason, err) and
\* returns.  `l` is the task's locals as the stage leaves them, `err` the
\* error it met and `pre` the lines it logged itself.
Proceed(t, ok, next, reason, err, pre, l) ==
  IF ok
  THEN /\ Goto(t, next)
       /\ loc' = [loc EXCEPT ![t] = l]
       /\ Log(t, pre)
       /\ UNCHANGED <<comments, posts>>
  ELSE /\ \E posted \in BOOLEAN : fail(t, reason, err, posted, pre)
       /\ Return(t)
       /\ loc' = [loc EXCEPT ![t] = [l EXCEPT !.reason = reason,
                                               !.outcome = "failed"]]

\* A variant that creates the workspace before it acknowledges.
FeatParseSkipsAck(t) ==
  /\ At(t, "feat", "start")
  /\ LET filesToModify == parseFilePathsFromIssue(issue[t].body)
         ok == Len(filesToModify) # 0 IN
     /\ Step(t, "parse", ok)
     /\ Proceed(t, ok, "mkdir", ReasonNoFiles, <<"<nil>">>,
                << <<"Processing implement_feature for issue #", Num(t)>> >>,
                [loc[t] EXCEPT !.filesToModify = filesToModify])
  /\ UNCHANGED <<configOK, dirs, now, issued, branches, prs, resp,
                 kind, issue, gen, cmds, req, registry>>

FeatParse(t) ==
  /\ At(t, "feat", "start")
  /\ LET filesToModify == parseFilePathsFromIssue(issue[t].body)
         ok == Len(filesToModify) # 0 IN
     /\ Step(t, "parse", ok)
     /\ Proceed(t, ok, "ack", ReasonNoFiles, <<"<nil>">>,
                << <<"Processing implement_feature for issue #", Num(t)>> >>,
                [loc[t] EXCEPT !.filesToModify = filesToModify])
  /\ UNCHANGED <<configOK, dirs, now, issued, branches, prs, resp,
                 kind, issue, gen, cmds, req, registry>>

FeatAck(t) ==
  /\ At(t, "feat", "ack")
  /\ \E ok \in BOOLEAN :
       /\ postComment(t, AckMessage(t), ok, <<>>)
       /\ Step(t, "ack", ok)
  /\ Goto(t, "mkdir")
  /\ UNCHANGED <<configOK, dirs, now, issued, branches, prs, resp,
                 kind, issue, loc, gen, cmds, req, registry>>

\* A variant that makes every workspace under one fixed name.
MkdirFixedName == {1}

\* os.MkdirTemp makes a directory under a name not in use; the workspaces
\* are named in the order of their creation, so no name is given twice.
MkdirTemp == {Cardinality({u \in Tasks : loc[u].tempDir # NoLocals.tempDir}) + 1}

\* os.MkdirTemp, and on success `defer os.RemoveAll(tempDir)`
FeatMkdir(t) ==
  /\ At(t, "feat", "mkdir")
  /\ \/ /\ Step(t, "mkdir", FALSE)
        /\ Proceed(t, FALSE, "token", ReasonTempDir,
                   <<"mkdir: no space left on device">>, <<>>, loc[t])
        /\ dirs' = dirs
     \/ \E d \in MkdirTemp :
          /\ Step(t, "mkdir", TRUE)
          /\ Proceed(t, TRUE, "token", ReasonTempDir, <<>>,
                     << <<"Created temporary directory: ", ToString(d)>> >>,
                     [loc[t] EXCEPT !.tempDir = d, !.deferred = TRUE])
          /\ dirs' = dirs \cup {d}
  /\ UNCHANGED <<configOK, now, issued, branches, prs, resp,
                 kind, issue, gen, cmds, req, registry>>

\* getInstallationToken: a new token from the platform, or an error.
FeatToken(t) ==
  /\ At(t, "feat", "token")
  /\ \E ok \in BOOLEAN :
       /\ Step(t, "token", ok)
       /\ issued' = IF ok THEN issued + 1 ELSE issued
       /\ Proceed(t, ok, "clone", ReasonToken,
                  <<"failed to get installation token">>, <<>>,
                  IF ok
                  THEN [loc[t] EXCEPT !.token = <<"ghs_", ToString(issued + 1)>>]
                  ELSE loc[t])
  /\ UNCHANGED <<configOK, dirs, now, branches, prs, resp,
                 kind, issue, gen, cmds, req, registry>>

cloneURL(t) ==
  <<"https://x-access-token:">> \o loc[t].token \o <<"@github.com/owner/repo.git">>

\* A stage that is one runCommand call and touches nothing else.
RunStage(t, here, next, name, args, reason) ==
  /\ At(t, "feat", here)
  /\ \E ok \in BOOLEAN :
       /\ runCommand(t, name, args, ok)
       /\ Step(t, here, ok)
       /\ Proceed(t, ok, next, reason, ExitError,
                  runCommandLog(loc[t].tempDir, name, args, ok), loc[t])
  /\ UNCHANGED <<configOK, dirs, now, issued, branches, prs, resp,
                 kind, issue, gen, req, registry>>

FeatClone(t) ==
  RunStage(t, "clone", "checkout", "git",
           <<<<"clone">>, cloneURL(t), <<".">>>>, ReasonClone)

\* branchName is built from the issue number and time.Now().Unix().
FeatCheckout(t) ==
  /\ At(t, "feat", "checkout")
  /\ \E ts \in now..MaxTime, ok \in BOOLEAN :
       LET branchName == <<"feature/issue-", Num(t), "-", ToString(ts)>> IN
       /\ now' = ts
       /\ runCommand(t, "git", <<<<"checkout">>, <<"-b">>, branchName>>, ok)
       /\ Step(t, "checkout", ok)
       /\ Proceed(t, ok, "gemini", ReasonBranch, ExitError,
                  runCommandLog(loc[t].tempDir, "git",
                                <<<<"checkout">>, <<"-b">>, branchName>>, ok),
                  [loc[t] EXCEPT !.branchName = branchName])
  /\ UNCHANGED <<configOK, dirs, issued, branches, prs, resp,
                 kind, issue, gen, req, registry>>

geminiArgs(t) ==
  <<  <<"As a senior Go developer, please modify the code">>
        \o issue[t].title \o issue[t].body,
      <<"-y">>, <<"-a">> >> \o loc[t].filesToModify

\* A variant that reports the patch agent under the reason of another stage.
FeatGeminiWrongReason(t) ==
  RunStage(t, "gemini", "config_name", "gemini", geminiArgs(t), ReasonCommit)

FeatGemini(t) ==
  RunStage(t, "gemini", "config_name", "gemini", geminiArgs(t), ReasonGemini)

FeatConfigName(t) ==
  RunStage(t, "config_name", "config_email", "git",
           <<<<"config">>, <<"user.name">>, <<githubAppName>>>>, ReasonUserName)

FeatConfigEmail(t) ==
  RunStage(t, "config_email", "add", "git",
           <<<<"config">>, <<"user.email">>,
             <<githubAppName, "@users.noreply.github.com">>>>, ReasonUserEmail)

FeatAdd(t) ==
  RunStage(t, "add", "commit", "git", <<<<"add">>, <<".">>>>, ReasonAdd)

FeatCommit(t) ==
  RunStage(t, "commit", "push", "git",
           <<<<"commit">>, <<"-m">>,
             <<"feat: Implement feature for #", Num(t)>>>>, ReasonCommit)

FeatPush(t) ==
  /\ At(t, "feat", "push")
  /\ \E ok \in BOOLEAN :
       /\ runCommand(t, "git", <<<<"push">>, <<"origin">>, loc[t].branchName>>, ok)
       /\ Step(t, "push", ok)
       /\ Proceed(t, ok, "pr", ReasonPush, ExitError,
                  runCommandLog(loc[t].tempDir, "git",
                                <<<<"push">>, <<"origin">>, loc[t].branchName>>, ok),
                  loc[t])
       /\ branches' = IF ok THEN branches \cup {loc[t].branchName} ELSE branches
  /\ UNCHANGED <<configOK, dirs, now, issued, prs, resp, kind, issue, gen, req, registry>>

\* pr.GetHTMLURL() of the n-th pull request of the repository
HTMLURL(n) == <<"https://github.com/owner/repo/pull/", ToString(n)>>

\* client.PullRequests.Create
FeatPR(t) ==
  /\ At(t, "feat", "pr")
  /\ \E ok \in BOOLEAN :
       LET newPR == [head |-> loc[t].branchName, base |-> DefaultBranch]
           url == HTMLURL(Len(prs) + 1)
       IN
       /\ Step(t, "pr", ok)
       /\ prs' = IF ok THEN Append(prs, newPR) ELSE prs
       /\ Proceed(t, ok, "final", ReasonPR, <<"POST pulls: 422">>, <<>>,
                  IF ok THEN [loc[t] EXCEPT !.url = url] ELSE loc[t])
  /\ UNCHANGED <<configOK, dirs, now, issued, branches, resp,
                 kind, issue, gen, cmds, req, registry>>

FeatFinal(t) ==
  /\ At(t, "feat", "final")
  /\ \E ok \in BOOLEAN :
       /\ postComment(t, FinalMessage(t, loc[t].url), ok, <<>>)
       /\ Step(t, "final", ok)
  /\ Return(t)
  /\ loc' = [loc EXCEPT ![t].outcome = "completed"]
  /\ UNCHANGED <<configOK, dirs, now, issued, branches, prs, resp,
                 kind, issue, gen, cmds, req, registry>>

\* A variant whose deferred call leaves the directory where it is.
FeatCleanupKeepsDir(t) ==
  /\ At(t, "feat", "cleanup")
  /\ dirs' = dirs
  /\ Goto(t, "done")
  /\ UNCHANGED <<configOK, comments, now, issued, branches, prs, resp,
                 kind, issue, loc, posts, gen, cmds, steps, req, logs, registry>>

\* The deferred os.RemoveAll(tempDir)
FeatCleanup(t) ==
  /\ At(t, "feat", "cleanup")
  /\ dirs' = dirs \ {loc[t].tempDir}
  /\ Goto(t, "done")
  /\ UNCHANGED <<configOK, comments, now, issued, branches, prs, resp,
                 kind, issue, loc, posts, gen, cmds, steps, req, logs, registry>>

\* ------------------------------------------------------------ specification

Next ==
  \/ handleWebhook(Events, 1..MaxTasks)
  \/ \E t \in Tasks : WriteHeader(t)
  \/ \E t \in Tasks : PRDFind(t)
  \/ \E t \in Tasks : PRDReadme(t)
  \/ \E t \in Tasks : PRDGenerate(t)
  \/ \E t \in Tasks : PRDPost(t)
  \/ \E t \in Tasks : SubFind(t)
  \/ \E t \in Tasks : SubNoPRD(t)
  \/ \E t \in Tasks : SubGenerate(t)
  \/ \E t \in Tasks : SubPost(t)
  \/ \E t \in Tasks : FeatParse(t)
  \/ \E t \in Tasks : FeatAck(t)
  \/ \E t \in Tasks : FeatMkdir(t)
  \/ \E t \in Tasks : FeatToken(t)
  \/ \E t \in Tasks : FeatClone(t)
  \/ \E t \in Tasks : FeatCheckout(t)
  \/ \E t \in Tasks : FeatGemini(t)
  \/ \E t \in Tasks : FeatConfigName(t)
  \/ \E t \in Tasks : FeatConfigEmail(t)
  \/ \E t \in Tasks : FeatAdd(t)
  \/ \E t \in Tasks : FeatCommit(t)
  \/ \E t \in Tasks : FeatPush(t)
  \/ \E t \in Tasks : FeatPR(t)
  \/ \E t \in Tasks : FeatFinal(t)
  \/ \E t \in Tasks : FeatCleanup(t)

Spec == Init /\ [][Next]_vars

\* Requests for the feature workflow alone, MaxRuns of them.
FeatureEvents ==
  {e \in Events : /\ e.type = "issue_comment"
                  /\ e.action = "created"
                  /\ e.comment = <<"@", githubAppName, " ", CommandImplementFeature>>}

\* The runs start on a well configured bot and an issue without comments.
InitRuns == Init /\ configOK /\ comments = <<>>

\* The answer written after the `go` statement touches nothing that a run
\* reads or writes; it is left to Spec.
NextRuns ==
  \/ handleWebhook(FeatureEvents, 1..MaxRuns)
  \/ \E t \in Tasks : FeatParse(t)
  \/ \E t \in Tasks : FeatAck(t)
  \/ \E t \in Tasks : FeatMkdir(t)
  \/ \E t \in Tasks : FeatToken(t)
  \/ \E t \in Tasks : FeatClone(t)
  \/ \E t \in Tasks : FeatCheckout(t)
  \/ \E t \in Tasks : FeatGemini(t)
  \/ \E t \in Tasks : FeatConfigName(t)
  \/ \E t \in Tasks : FeatConfigEmail(t)
  \/ \E t \in Tasks : FeatAdd(t)
  \/ \E t \in Tasks : FeatCommit(t)
  \/ \E t \in Tasks : FeatPush(t)
  \/ \E t \in Tasks : FeatPR(t)
  \/ \E t \in Tasks : FeatFinal(t)
  \/ \E t \in Tasks : FeatCleanup(t)

SpecRuns == InitRuns /\ [][NextRuns]_vars

\* Requests that start the PRD pipeline: an opened issue, or the need_prd
\* command in a created comment.
PRDEvents ==
  {e \in Events :
     \/ e.type = "issues" /\ e.action = "opened"
     \/ /\ e.type = "issue_comment"
        /\ e.action = "created"
        /\ e.comment = <<"@", githubAppName, " ", CommandGeneratePRD>>}

\* The PRD runs start on a well configured bot.
InitPRD == Init /\ configOK

\* MaxRuns requests for the PRD pipeline on one issue; their goroutines
\* interleave freely.
NextPRD ==
  \/ handleWebhook(PRDEvents, 1..MaxRuns)
  \/ \E t \in Tasks : PRDFind(t)
  \/ \E t \in Tasks : PRDReadme(t)
  \/ \E t \in Tasks : PRDGenerate(t)
  \/ \E t \in Tasks : PRDPost(t)

SpecPRD == InitPRD /\ [][NextPRD]_vars

\* No task is running: every request so far started none or its task ended.
Quiet == \A t \in Tasks : kind[t] \in {"prd", "sub", "feat"} => pc[t] = "done"

\* A request that arrives when no task is running.
handleWebhookQuiet(evts, slots) == Quiet /\ handleWebhook(evts, slots)

\* MaxRuns requests for the PRD pipeline on one issue, each arriving after
\* the run before it has ended.
NextSeq ==
  \/ handleWebhookQuiet(PRDEvents, 1..MaxRuns)
  \/ \E t \in Tasks : PRDFind(t)
  \/ \E t \in Tasks : PRDReadme(t)
  \/ \E t \in Tasks : PRDGenerate(t)
  \/ \E t \in Tasks : PRDPost(t)

SpecSeq == InitPRD /\ [][NextSeq]_vars

\* Comment bodies an issue may hold: without the marker, with a text that
\* only begins like the marker, with the marker at the start, and with the
\* marker inside.
CommentTexts ==
  { <<"thanks">>,
    <<"### PRD", " ", "draft">>,
    PRDIdentifier \o <<Rule, "v1">>,
    <<"see", " ">> \o PRDIdentifier \o <<" ", "v2">> }

\* Every sequence of at most MaxComments comments with those bodies.
CommentSequences ==
  UNION {[1..n -> {UserComment(b) : b \in CommentTexts}] : n \in 0..MaxComments}

\* Requests for the sub-task pipeline.
SubTaskEvents ==
  {e \in Events : /\ e.type = "issue_comment"
                  /\ e.action = "created"
                  /\ e.comment = <<"@", githubAppName, " ", CommandGenerateSubTask>>}

\* A well configured bot and an issue that holds any of the sequences.
InitSub ==
  /\ configOK = TRUE
  /\ comments \in CommentSequences
  /\ dirs = {}
  /\ now = 0
  /\ issued = 0
  /\ branches = {}
  /\ prs = <<>>
  /\ resp = 0
  /\ kind = [t \in Tasks |-> "free"]
  /\ pc = [t \in Tasks |-> "idle"]
  /\ issue \in [Tasks -> {[number |-> 1, title |-> <<>>, body |-> <<>>]}]
  /\ loc = [t \in Tasks |-> NoLocals]
  /\ posts = [t \in Tasks |-> <<>>]
  /\ gen = [t \in Tasks |-> <<>>]
  /\ cmds = [t \in Tasks |-> <<>>]
  /\ steps = [t \in Tasks |-> <<>>]
  /\ req = [t \in Tasks |-> NoRequest]
  /\ logs = [t \in Tasks |-> <<>>]
  /\ registry = commands

\* One request for the sub-task pipeline.
NextSub ==
  \/ handleWebhook(SubTaskEvents, 1..MaxTasks)
  \/ \E t \in Tasks : SubFind(t)
  \/ \E t \in Tasks : SubNoPRD(t)
  \/ \E t \in Tasks : SubGenerate(t)
  \/ \E t \in Tasks : SubPost(t)

SpecSub == InitSub /\ [][NextSub]_vars

\* Issue bodies for the parse step: no "Files:" line; "Files:" inside a line;
\* nothing but white space after the prefix; only commas and white space
\* after it; a list followed by a second "Files:" line; an empty "Files:"
\* line followed by one with an entry; and a list that ends in a comma.
FileBodies ==
  { <<"Please", " ", "add", " ", "dark", " ", "mode">>,
    <<"My", " ", "Files:", " ", "x.go">>,
    <<"Files:", " ", "\t">>,
    <<"Files:", " ", ",", " ", ",">>,
    <<"Please", "\n", " ", "Files:", " ", "a.go", ",", " ", "b.go", " ", "\n",
      "Files:", "c.go">>,
    <<"Files:", "\n", "Files:", " ", "d.go">>,
    <<"Files:", "a.go", ",">> }

\* Requests for the feature workflow on an issue with any of those bodies.
ParseEvents ==
  [type : {"issue_comment"}, action : {"created"},
   comment : {<<"@", githubAppName, " ", CommandImplementFeature>>},
   issue : [number : {1}, title : {<<"Add dark mode">>}, body : FileBodies]]

\* One request for the feature workflow.
NextParse ==
  \/ handleWebhook(ParseEvents, 1..MaxTasks)
  \/ \E t \in Tasks : FeatParse(t)
  \/ \E t \in Tasks : FeatAck(t)
  \/ \E t \in Tasks : FeatMkdir(t)
  \/ \E t \in Tasks : FeatToken(t)
  \/ \E t \in Tasks : FeatClone(t)
  \/ \E t \in Tasks : FeatCheckout(t)
  \/ \E t \in Tasks : FeatGemini(t)
  \/ \E t \in Tasks : FeatConfigName(t)
  \/ \E t \in Tasks : FeatConfigEmail(t)
  \/ \E t \in Tasks : FeatAdd(t)
  \/ \E t \in Tasks : FeatCommit(t)
  \/ \E t \in Tasks : FeatPush(t)
  \/ \E t \in Tasks : FeatPR(t)
  \/ \E t \in Tasks : FeatFinal(t)
  \/ \E t \in Tasks : FeatCleanup(t)

SpecParse == InitRuns /\ [][NextParse]_vars

\* One step of the goroutine of task t.
TaskStep(t) ==
  \/ PRDFind(t) \/ PRDReadme(t) \/ PRDGenerate(t) \/ PRDPost(t)
  \/ SubFind(t) \/ SubNoPRD(t) \/ SubGenerate(t) \/ SubPost(t)
  \/ FeatParse(t) \/ FeatAck(t) \/ FeatMkdir(t) \/ FeatToken(t)
  \/ FeatClone(t) \/ FeatCheckout(t) \/ FeatGemini(t)
  \/ FeatConfigName(t) \/ FeatConfigEmail(t) \/ FeatAdd(t)
  \/ FeatCommit(t) \/ FeatPush(t) \/ FeatPR(t) \/ FeatFinal(t)
  \/ FeatCleanup(t)

\* Issue bodies of the requests of SpecLive, without and with a file list.
\* They are short because the enabledness of the parse step is evaluated in
\* every state.
LiveBodies == { <<"add">>, <<"Files:", "a.go">> }

\* The requests that start a task: an opened issue and the three commands.
LiveEvents ==
  [type : {"issues"}, action : {"opened"}, comment : {<<>>},
   issue : [number : {1}, title : {<<"Add dark mode">>}, body : LiveBodies]]
  \cup [type : {"issue_comment"}, action : {"created"},
        comment : {<<"@", githubAppName, " ", c>> :
                     c \in {CommandGeneratePRD, CommandGenerateSubTask,
                            CommandImplementFeature}},
        issue : [number : {1}, title : {<<"Add dark mode">>}, body : LiveBodies]]

NextLive ==
  \/ handleWebhook(LiveEvents, 1..MaxTasks)
  \/ \E t \in Tasks : WriteHeader(t)
  \/ \E t \in Tasks : TaskStep(t)

\* The Go scheduler runs every goroutine that can run, and every call a
\* goroutine waits on returns: a task that can take a step takes one.
SpecLive == Init /\ [][NextLive]_vars /\ \A t \in Tasks : WF_vars(TaskStep(t))

\* ------------------------------------------------------------ vocabulary of the properties

\* The postComment calls of run t other than its acknowledgment.
TerminalPosts(t) == SelectSeq(posts[t], LAMBDA p : p.body # AckMessage(t))

\* The comments of run t on the issue other than its acknowledgment.
TerminalOnIssue(t) ==
  SelectSeq(comments, LAMBDA c : c.by = t /\ c.body # AckMessage(t))

Bodies(seq) == [k \in 1..Len(seq) |-> seq[k].body]

IsDiagnostic(t, b) ==
  /\ Len(b) = 5
  /\ b[1] = "I failed to implement the feature for issue #"
  /\ b[2] = ToString(issue[t].number)
  /\ b[3] = ". **Reason:** "

IsPullRequestLink(t, b) ==
  /\ Len(b) >= 1
  /\ b[1] = "I have created a Pull Request for issue #"

FeatureRuns == {t \in Tasks : kind[t] = "feat"}

\* A workspace directory on disk belongs to a feature run that has not ended.
WorkspacesRemoved ==
  \A d \in dirs : \E u \in FeatureRuns :
     pc[u] # "done" /\ loc[u].deferred /\ loc[u].tempDir = d

\* The lines of a body, and the lines that, trimmed, begin with "Files:".
Lines(body) == Split(body, "\n")
FilesLines(body) ==
  {k \in 1..Len(Lines(body)) : HasPrefix(TrimSpace(Lines(body)[k]), <<"Files:">>)}

\* The steps of the feature workflow in the order of the source, and the
\* stage each belongs to.
StepOrder ==
  <<"parse", "ack", "mkdir", "token", "clone", "checkout", "gemini",
    "config_name", "config_email", "add", "commit", "push", "pr", "final">>

InOrder(t) ==
  /\ Len(steps[t]) <= Len(StepOrder)
  /\ \A k \in 1..Len(steps[t]) : steps[t][k].step = StepOrder[k]

\* ------------------------------------------------------------ C1

\* C1 as stated: when a feature run has ended, the issue carries exactly one
\* terminal comment of the run, and the workspace it created is gone.
C1_Original ==
  /\ \A t \in FeatureRuns : pc[t] = "done" => Len(TerminalOnIssue(t)) = 1
  /\ WorkspacesRemoved

\* C1 (amended): a feature run that has ended has made exactly one terminal
\* postComment call, its last, with either one failure diagnostic or the
\* pull-request link; the issue carries that one comment when the tracker
\* accepted the post and no terminal comment of the run when it did not; and
\* every workspace directory a run created is removed by the time it ends.
C1_OneTerminalPost ==
  /\ \A t \in FeatureRuns : pc[t] = "done" =>
       LET term == TerminalPosts(t) IN
       /\ Len(term) = 1
       /\ posts[t][Len(posts[t])] = term[1]
       /\ IsDiagnostic(t, term[1].body) \/ IsPullRequestLink(t, term[1].body)
       /\ Bodies(TerminalOnIssue(t))
            = IF term[1].ok THEN <<term[1].body>> ELSE <<>>
  /\ WorkspacesRemoved

\* A run that created its workspace, failed later, was refused its diagnostic
\* by the tracker and has ended.
C1_Witness ==
  \E t \in FeatureRuns :
     /\ pc[t] = "done"
     /\ loc[t].deferred
     /\ loc[t].tempDir \notin dirs
     /\ loc[t].outcome = "failed"
     /\ ~posts[t][Len(posts[t])].ok

\* ------------------------------------------------------------ C2

\* C2: a feature run on an issue body none of whose lines (trimmed) begins
\* with "Files:" stops at the parse step: it never acknowledges, creates no
\* workspace, requests no credential, starts no process, and makes exactly
\* one postComment call, with the diagnostic that names the missing list.
C2_NoFilesLine ==
  \A t \in FeatureRuns :
     FilesLines(issue[t].body) = {} /\ pc[t] # "start" =>
       /\ pc[t] = "done"
       /\ steps[t] = <<[step |-> "parse", ok |-> FALSE]>>
       /\ Len(posts[t]) = 1
       /\ IsDiagnostic(t, posts[t][1].body)
       /\ posts[t][1].body[4] = ReasonNoFiles
       /\ posts[t][1].body # AckMessage(t)
       /\ cmds[t] = <<>>
       /\ loc[t].tempDir = NoLocals.tempDir
       /\ ~loc[t].deferred
       /\ loc[t].token = NoLocals.token
       /\ loc[t].outcome = "failed"

C2_Witness ==
  \E t \in FeatureRuns :
     /\ FilesLines(issue[t].body) = {}
     /\ pc[t] = "done"
     /\ Len(posts[t]) = 1

\* ------------------------------------------------------------ C3

\* C3: when the patch agent fails, that is the last step of the run: nothing
\* is staged, committed or pushed and no pull request is requested; the run
\* makes exactly one terminal postComment call, a diagnostic whose reason is
\* that of the patch stage and of no other; and the run goes on only to
\* remove its workspace, which is gone when it has ended.
C3_PatchFailure ==
  \A t \in FeatureRuns :
     (\E k \in 1..Len(steps[t]) : steps[t][k] = [step |-> "gemini", ok |-> FALSE]) =>
       /\ steps[t][Len(steps[t])] = [step |-> "gemini", ok |-> FALSE]
       /\ Len(cmds[t]) = 3
       /\ cmds[t][3].name = "gemini"
       /\ \A k \in 1..Len(cmds[t]) :
            cmds[t][k].name = "git" =>
              cmds[t][k].args[1] \in {<<"clone">>, <<"checkout">>}
       /\ loc[t].url = NoLocals.url
       /\ Len(TerminalPosts(t)) = 1
       /\ TerminalPosts(t)[1].body = FailMessage(t, ReasonGemini)
       /\ IsDiagnostic(t, TerminalPosts(t)[1].body)
       /\ TerminalPosts(t)[1].body[4] = "Gemini CLI failed to modify the files"
       /\ pc[t] \in {"cleanup", "done"}
       /\ pc[t] = "done" => loc[t].tempDir \notin dirs

C3_Witness ==
  \E t \in FeatureRuns :
     /\ pc[t] = "done"
     /\ steps[t][Len(steps[t])] = [step |-> "gemini", ok |-> FALSE]
     /\ loc[t].tempDir \notin dirs
     /\ loc[t].deferred

\* ------------------------------------------------------------ C4

\* C4 as stated: the steps of a feature run are an initial part of the fixed
\* order (so none is repeated or skipped), and a step that failed is the
\* last one of the run.
C4_Original ==
  \A t \in FeatureRuns :
     /\ InOrder(t)
     /\ \A k \in 1..Len(steps[t]) : ~steps[t][k].ok => k = Len(steps[t])

\* C4 (amended): the steps of a feature run are an initial part of the fixed
\* order, so no stage is entered twice or before its predecessor; a step
\* that failed is the last one of the run, except the acknowledgment, whose
\* failed post is only logged and does not stop the run.
C4_StageOrder ==
  \A t \in FeatureRuns :
     /\ InOrder(t)
     /\ \A k \in 1..Len(steps[t]) :
          ~steps[t][k].ok => k = Len(steps[t]) \/ steps[t][k].step = "ack"

\* A run whose acknowledgment was refused, which went on, failed at a later
\* step and ended there.
C4_Witness ==
  \E t \in FeatureRuns :
     /\ pc[t] = "done"
     /\ Len(steps[t]) >= 5
     /\ steps[t][2] = [step |-> "ack", ok |-> FALSE]
     /\ ~steps[t][Len(steps[t])].ok

\* ------------------------------------------------------------ C5

\* The first "Files:" line of the body has something after the prefix.
FilesListed(body) ==
  /\ FilesLines(body) # {}
  /\ LET first == CHOOSE k \in FilesLines(body) :
                     \A j \in FilesLines(body) : k <= j
     IN TrimSpace(TrimPrefix(TrimSpace(Lines(body)[first]), <<"Files:">>)) # <<>>

\* C5: a feature run on a body with a non-empty Files list, none of whose
\* later steps failed, has, when it has ended, run every step exactly once
\* in the fixed order, started each of its eight processes once, pushed its
\* branch, opened a pull request from that branch to the default branch, and
\* posted as its last comment the message that carries the address of that
\* pull request, which is on the issue.
C5_AllStagesSucceed ==
  \A t \in FeatureRuns :
     /\ pc[t] = "done"
     /\ FilesListed(issue[t].body)
     /\ \A k \in 2..Len(steps[t]) : steps[t][k].ok
     => /\ steps[t] = [k \in 1..Len(StepOrder) |-> [step |-> StepOrder[k], ok |-> TRUE]]
        /\ Len(cmds[t]) = 8
        /\ \A k \in 1..Len(cmds[t]) : cmds[t][k].ok
        /\ loc[t].branchName \in branches
        /\ \E n \in 1..Len(prs) :
             /\ prs[n].head = loc[t].branchName
             /\ prs[n].base = DefaultBranch
             /\ loc[t].url = HTMLURL(n)
             /\ Contains(posts[t][Len(posts[t])].body, HTMLURL(n))
        /\ IsPullRequestLink(t, posts[t][Len(posts[t])].body)
        /\ Len(posts[t]) = 2
        /\ Bodies(TerminalOnIssue(t)) = <<posts[t][2].body>>
        /\ loc[t].outcome = "completed"
        /\ loc[t].tempDir \notin dirs

C5_Witness ==
  \E t \in FeatureRuns :
     /\ pc[t] = "done"
     /\ Len(steps[t]) = Len(StepOrder)
     /\ \A k \in 1..Len(steps[t]) : steps[t][k].ok
     /\ Len(prs) >= 1

\* ------------------------------------------------------------ C6

\* C6: in a feature run, the workspace, the credential and every process
\* come after the acknowledgment: a step other than the parse and the
\* acknowledgment has the acknowledgment step before it, the first
\* postComment call of a run that passed the parse is the acknowledgment,
\* and a run holds no workspace, no credential and no started process until
\* that call is made.
C6_AckFirst ==
  \A t \in FeatureRuns :
     /\ \A k \in 1..Len(steps[t]) :
          steps[t][k].step \notin {"parse", "ack"} =>
            \E j \in 1..(k - 1) : steps[t][j].step = "ack"
     /\ (loc[t].tempDir # NoLocals.tempDir \/ loc[t].token # NoLocals.token
           \/ cmds[t] # <<>> \/ loc[t].deferred)
        => /\ Len(posts[t]) >= 1
           /\ posts[t][1].body = AckMessage(t)
     /\ (Len(steps[t]) >= 1 /\ steps[t][1].ok /\ pc[t] # "ack")
        => /\ Len(steps[t]) >= 2
           /\ steps[t][2].step = "ack"
           /\ posts[t][1].body = AckMessage(t)

C6_Witness ==
  \E t \in FeatureRuns :
     /\ loc[t].tempDir # NoLocals.tempDir
     /\ loc[t].token # NoLocals.token
     /\ cmds[t] # <<>>
     /\ posts[t][1].body = AckMessage(t)

\* ------------------------------------------------------------ C7

\* Some comment of the list carries the PRD marker.
HasPRD(cs) == \E k \in 1..Len(cs) : Contains(cs[k].body, PRDIdentifier)

PRDRuns == {t \in Tasks : kind[t] = "prd"}
SubTaskRuns == {t \in Tasks : kind[t] = "sub"}

\* C7: a PRD run that found, when it looked, a comment with the PRD marker
\* among the comments of the issue makes no generator call, does not fetch
\* the README and posts no comment.
C7_Idempotent ==
  \A t \in PRDRuns :
     pc[t] # "start" /\ HasPRD(loc[t].listing) =>
       /\ gen[t] = <<>>
       /\ posts[t] = <<>>
       /\ \A k \in 1..Len(steps[t]) : steps[t][k].step # "readme"
       /\ pc[t] = "done"

\* ------------------------------------------------------------ C8

\* The generator calls of a PRD run: the draft succeeded and the translation
\* failed.
TranslationFailed(t) ==
  /\ Len(gen[t]) = 3
  /\ ~gen[t][1].err
  /\ gen[t][3].stage = "translate"
  /\ gen[t][3].err

\* C8: when the translation fails, generatePRD still succeeds; its result is
\* the marker, the rule and the English section and nothing more (no second
\* rule, no language header, no translated section); and that result is the
\* body of the one postComment call of the run.
C8_EnglishOnly ==
  \A t \in PRDRuns :
     TranslationFailed(t) =>
       /\ steps[t][3] = [step |-> "generatePRD", ok |-> TRUE]
       /\ loc[t].content = PRDIdentifier \o <<"\n\n---\n\n">> \o gen[t][1].text
       /\ ~Contains(loc[t].content, <<"### PRD (">>)
       /\ pc[t] \in {"post", "done"}
       /\ pc[t] = "done" =>
            /\ Len(posts[t]) = 1
            /\ posts[t][1].body = loc[t].content

C8_Witness ==
  \E t \in PRDRuns :
     /\ TranslationFailed(t)
     /\ pc[t] = "done"
     /\ posts[t] = <<[body |-> loc[t].content, ok |-> TRUE]>>

\* ------------------------------------------------------------ C9

\* The draft succeeded and the language detection failed.
DetectionFailed(t) ==
  /\ Len(gen[t]) >= 2
  /\ ~gen[t][1].err
  /\ gen[t][2].stage = "language"
  /\ gen[t][2].err

\* C9: when the language detection fails, the translation is still asked
\* for, with the literal "the original language of the issue" as the target
\* language; generatePRD succeeds, with the full layout naming that literal
\* in its header when the translation succeeds; and the result is the body
\* of the one postComment call of the run.
C9_FallbackLanguage ==
  \A t \in PRDRuns :
     DetectionFailed(t) =>
       /\ Len(gen[t]) = 3
       /\ gen[t][3].stage = "translate"
       /\ gen[t][3].args = <<<<"the original language of the issue">>, gen[t][1].text>>
       /\ steps[t][3] = [step |-> "generatePRD", ok |-> TRUE]
       /\ ~gen[t][3].err =>
            loc[t].content =
              PRDIdentifier \o <<"\n\n---\n\n">> \o gen[t][1].text
                \o <<"\n\n---\n\n", "### PRD (", "the original language of the issue",
                     ")", "\n\n">> \o gen[t][3].text
       /\ HasPrefix(loc[t].content, PRDIdentifier \o <<"\n\n---\n\n">> \o gen[t][1].text)
       /\ pc[t] \in {"post", "done"}
       /\ pc[t] = "done" =>
            /\ Len(posts[t]) = 1
            /\ posts[t][1].body = loc[t].content

C9_Witness ==
  \E t \in PRDRuns :
     /\ DetectionFailed(t)
     /\ ~gen[t][3].err
     /\ pc[t] = "done"
     /\ posts[t] = <<[body |-> loc[t].content, ok |-> TRUE]>>

\* ------------------------------------------------------------ C10

\* C10: a sub-task run that looked when no comment of the issue carried the
\* PRD marker makes no generator call, and makes exactly one postComment
\* call, with the fixed message that tells the user to run need_prd first.
C10_NoPRD ==
  \A t \in SubTaskRuns :
     pc[t] # "start" /\ ~HasPRD(loc[t].listing) =>
       /\ gen[t] = <<>>
       /\ pc[t] \in {"noprd", "done"}
       /\ pc[t] = "noprd" => posts[t] = <<>>
       /\ pc[t] = "done" =>
            /\ Len(posts[t]) = 1
            /\ posts[t][1].body =
                 <<"I could not find a PRD to generate sub-tasks from. Please run ",
                   "@", "bot", " ", "need_prd", " first.">>

C10_Witness ==
  \E t \in SubTaskRuns :
     /\ pc[t] = "done"
     /\ ~HasPRD(loc[t].listing)
     /\ steps[t][1] = [step |-> "list", ok |-> TRUE]
     /\ Len(posts[t]) = 1


\* ------------------------------------------------------------ C11

\* The requests that carried a valid created-comment event.
CommentRequests ==
  {t \in Tasks : /\ req[t].valid
                 /\ req[t].type = "issue_comment"
                 /\ req[t].action = "created"}

\* The whitespace-delimited tokens of a body, and whether the first is
\* exactly the mention.
Tokens(body) == Fields(body)
Addressed(body) ==
  Len(Tokens(body)) >= 1 /\ Tokens(body)[1] = <<"@", "bot">>

\* Request t started nothing and left nothing on the issue.
Dropped(t) ==
  /\ kind[t] = "none"
  /\ steps[t] = <<>>
  /\ posts[t] = <<>>
  /\ \A k \in 1..Len(comments) : comments[k].by # t

\* C11: a created comment whose first token is not exactly the mention
\* starts no handler and posts nothing, whatever its other tokens are.
C11_NotAddressed ==
  \A t \in CommentRequests : ~Addressed(req[t].comment) => Dropped(t)

\* Comments dropped although a later token is the mention and a command, or
\* although the first token is the mention in another case or with a comma.
C11_Witness ==
  /\ configOK
  /\ \E t \in CommentRequests :
       /\ req[t].comment \in
            { <<"thanks", " ", "@", "bot", " ", "need_prd">>,
              <<"@", "Bot", " ", "need_prd">>,
              <<"@", "bot", ",", " ", "implement_feature">> }
       /\ Dropped(t)

\* ------------------------------------------------------------ C12

\* The handler registered for a command token, "none" for any other token.
HandlerOf(token) ==
  CASE token = <<"need_prd">> -> "prd"
    [] token = <<"need_sub_task">> -> "sub"
    [] token = <<"implement_feature">> -> "feat"
    [] OTHER -> "none"

\* C12: for a created comment whose first token is the mention, the second
\* token alone decides the handler: the task started is the one registered
\* for it whatever tokens follow, and it is started whenever the GitHub
\* client can be created.
C12_SecondToken ==
  \A t \in CommentRequests :
     Addressed(req[t].comment) /\ Len(Tokens(req[t].comment)) >= 2 =>
       /\ kind[t] \in {"none", HandlerOf(Tokens(req[t].comment)[2])}
       /\ configOK => kind[t] = HandlerOf(Tokens(req[t].comment)[2])

C12_Witness ==
  \E t \in CommentRequests :
     /\ req[t].comment = <<" ", "@", "bot", "\n", "need_prd", " ", "extra">>
     /\ kind[t] = "prd"
     /\ steps[t] # <<>>

\* ------------------------------------------------------------ C13

\* C13: a created comment that is not addressed to the bot, that is the
\* mention alone, or whose second token is no registered command is dropped
\* in silence: no task, no comment, no GitHub client, and the request is
\* answered with 200; and the registry is the one built at start-up.
C13_SilentDrop ==
  /\ \A t \in CommentRequests :
       (\/ ~Addressed(req[t].comment)
        \/ Len(Tokens(req[t].comment)) < 2
        \/ HandlerOf(Tokens(req[t].comment)[2]) = "none")
       => /\ Dropped(t)
          /\ req[t].client = "none"
          /\ req[t].status = 200
          /\ req[t].written
  /\ DOMAIN registry = {<<"need_prd">>, <<"need_sub_task">>, <<"implement_feature">>}
  /\ \A c \in DOMAIN registry : registry[c] = HandlerOf(c)

\* An unknown command, dropped while the client could not even be created.
C13_Witness ==
  /\ ~configOK
  /\ resp = 200
  /\ \E t \in CommentRequests :
       /\ req[t].comment = <<"@", "bot", " ", "deploy">>
       /\ Dropped(t)

\* ------------------------------------------------------------ C14

\* The requests that carried a valid issues event.
IssueRequests == {t \in Tasks : req[t].valid /\ req[t].type = "issues"}

Handlers == {"prd", "sub", "feat"}

\* C14 as stated: every opened issue starts the PRD pipeline; an issue event
\* with another action starts nothing; a request starts at most one task.
C14_Original ==
  /\ \A t \in IssueRequests :
       IF req[t].action = "opened" THEN kind[t] = "prd" ELSE Dropped(t)
  /\ Cardinality({t \in Tasks : kind[t] \in Handlers})
       <= Cardinality({t \in Tasks : req[t] # NoRequest})

\* C14 (amended): an opened issue starts the PRD pipeline for that issue,
\* without a mention and whatever its body, whenever the GitHub client can
\* be created, and starts nothing when it cannot; an issue event with
\* another action starts nothing; a request starts at most one task.
C14_IssueOpened ==
  /\ \A t \in IssueRequests :
       IF req[t].action = "opened"
       THEN IF configOK
            THEN kind[t] = "prd" /\ req[t].client = "ok"
            ELSE Dropped(t) /\ req[t].client = "failed"
       ELSE Dropped(t) /\ req[t].client = "none"
  /\ Cardinality({t \in Tasks : kind[t] \in Handlers})
       <= Cardinality({t \in Tasks : req[t] # NoRequest})

\* An opened issue whose body has no mention, with its PRD run under way.
C14_Witness ==
  \E t \in IssueRequests :
     /\ req[t].action = "opened"
     /\ ~Contains(issue[t].body, <<"@">>)
     /\ kind[t] = "prd"
     /\ steps[t] # <<>>


\* ------------------------------------------------------------ C15

\* The requests that started a task.
Dispatched == {t \in Tasks : kind[t] \in Handlers}

\* The task of request t has done some of its work.
AtWork(t) ==
  steps[t] # <<>> \/ gen[t] # <<>> \/ posts[t] # <<>> \/ cmds[t] # <<>>

\* C15 as stated: a task does none of its work before the request that
\* started it has been answered.
C15_Original == \A t \in Dispatched : AtWork(t) => req[t].written

\* C15 (amended): for every recognized trigger the handler starts the task
\* and then answers 200 without waiting for it: the answer is 200 whatever
\* the task does and can be written at every point of the task, so in some
\* interleavings the task has listed comments, called the generator, posted
\* or run a process by the time the answer is written.
C15_AnswerIndependent ==
  \A t \in Dispatched :
     /\ req[t].status = 200
     /\ req[t].client = "ok"
     /\ ~req[t].written => ENABLED WriteHeader(t)
     /\ req[t].written => resp # 0

\* A task that has ended before its request was answered.
C15_Witness ==
  \E t \in Dispatched :
     /\ pc[t] = "done"
     /\ posts[t] # <<>>
     /\ ~req[t].written

\* ------------------------------------------------------------ C16

\* C16: no line that a feature run logs holds the installation token of the
\* run.
C16_TokenNotLogged ==
  \A t \in FeatureRuns :
     loc[t].token # NoLocals.token =>
       \A k \in 1..Len(logs[t]) : ~Contains(logs[t][k], loc[t].token)

\* ------------------------------------------------------------ C17

\* The last process of run t exited non-zero.
ProcessFailed(t) ==
  cmds[t] # <<>> /\ ~cmds[t][Len(cmds[t])].ok

\* The reason the source gives for the failure of each process.
ReasonOfCommand(c) ==
  IF c.name = "gemini" THEN "Gemini CLI failed to modify the files"
  ELSE CASE c.args[1] = <<"clone">> -> "Could not clone repository"
         [] c.args[1] = <<"checkout">> -> "Could not create new branch"
         [] c.args[1] = <<"config">> /\ c.args[2] = <<"user.name">>
              -> "Could not set git user name"
         [] c.args[1] = <<"config">> /\ c.args[2] = <<"user.email">>
              -> "Could not set git user email"
         [] c.args[1] = <<"add">> -> "Could not add files to git"
         [] c.args[1] = <<"commit">> -> "Could not commit changes"
         [] c.args[1] = <<"push">> -> "Could not push changes to remote"

\* C17 as stated: the failure comment of a failed process holds the captured
\* output of the process.
C17_Original ==
  \A t \in FeatureRuns :
     ProcessFailed(t) =>
       /\ Len(TerminalPosts(t)) = 1
       /\ Contains(TerminalPosts(t)[1].body, cmds[t][Len(cmds[t])].output)

\* C17 (amended): when a process of the feature workflow exits non-zero, the
\* failure comment names the failing stage by its fixed reason and holds
\* neither the error nor the captured output of the process; those are
\* written to the log only.
C17_ReasonOnly ==
  \A t \in FeatureRuns :
     ProcessFailed(t) =>
       LET failed == cmds[t][Len(cmds[t])] IN
       /\ Len(TerminalPosts(t)) = 1
       /\ TerminalPosts(t)[1].body =
            <<"I failed to implement the feature for issue #",
              ToString(issue[t].number), ". **Reason:** ",
              ReasonOfCommand(failed), ".">>
       /\ ~Contains(TerminalPosts(t)[1].body, failed.output)
       /\ ~Contains(TerminalPosts(t)[1].body, <<"exit status 1">>)
       /\ \E k \in 1..Len(logs[t]) : Contains(logs[t][k], failed.output)
       /\ \E k \in 1..Len(logs[t]) :
            /\ Contains(logs[t][k], <<ReasonOfCommand(failed)>>)
            /\ Contains(logs[t][k], <<"exit status 1">>)

\* A run whose push failed and whose failure comment is on the issue.
C17_Witness ==
  \E t \in FeatureRuns :
     /\ ProcessFailed(t)
     /\ cmds[t][Len(cmds[t])].args[1] = <<"push">>
     /\ TerminalPosts(t)[1].ok
     /\ pc[t] = "done"

\* ------------------------------------------------------------ C18

\* The tasks that ended on a failure.
FailedTasks ==
  {t \in Dispatched : pc[t] = "done" /\ loc[t].outcome = "failed"}

InProgress(t) == kind[t] = "feat" /\ pc[t] # "done"

HasWorkspace(t) == loc[t].tempDir # NoLocals.tempDir
HasToken(t) == loc[t].token # NoLocals.token

\* C19: two feature runs in progress own distinct workspaces and hold
\* distinct tokens; every process of a run runs in the workspace of that
\* run, and its clone uses the token the run fetched; and the workspace of
\* a run exists until the run itself removes it, whatever the other runs
\* remove.
C19_OwnWorkspace ==
  /\ \A t, u \in FeatureRuns :
       t # u /\ InProgress(t) /\ InProgress(u) =>
         /\ HasWorkspace(t) /\ HasWorkspace(u) => loc[t].tempDir # loc[u].tempDir
         /\ HasToken(t) /\ HasToken(u) => loc[t].token # loc[u].token
  /\ \A t \in FeatureRuns :
       /\ \A k \in 1..Len(cmds[t]) :
            /\ HasWorkspace(t)
            /\ cmds[t][k].dir = loc[t].tempDir
            /\ cmds[t][k].args[1] = <<"clone">> =>
                 /\ HasToken(t)
                 /\ Contains(cmds[t][k].args[2], loc[t].token)
                 /\ \A u \in FeatureRuns \ {t} :
                      HasToken(u) => ~Contains(cmds[t][k].args[2], loc[u].token)
       /\ InProgress(t) /\ HasWorkspace(t) => loc[t].tempDir \in dirs

\* One run has ended and removed its workspace while another, with a
\* workspace and a token of its own, is still cloning or further.
C19_Witness ==
  \E t, u \in FeatureRuns :
     /\ t # u
     /\ pc[t] = "done" /\ HasWorkspace(t) /\ HasToken(t)
     /\ loc[t].tempDir \notin dirs
     /\ InProgress(u) /\ HasToken(u) /\ cmds[u] # <<>>
     /\ loc[u].tempDir \in dirs

\* ------------------------------------------------------------ C20

\* C20: two feature runs on the same issue never create branches of the
\* same name.
C20_DistinctBranches ==
  \A t, u \in FeatureRuns :
     /\ t # u
     /\ issue[t].number = issue[u].number
     /\ loc[t].branchName # NoLocals.branchName
     /\ loc[u].branchName # NoLocals.branchName
     => loc[t].branchName # loc[u].branchName

\* ------------------------------------------------------------ C21

\* The successful postComment calls of run t whose body carries the marker.
MarkerPosts(t) ==
  SelectSeq(posts[t], LAMBDA p : p.ok /\ Contains(p.body, PRDIdentifier))

\* The comments of the issue that the bot wrote and that carry the marker.
BotPRDComments ==
  SelectSeq(comments, LAMBDA c : c.by # 0 /\ Contains(c.body, PRDIdentifier))

\* Run t listed the comments of the issue, and the listing succeeded.
Listed(t) == steps[t] # <<>> /\ steps[t][1] = [step |-> "list", ok |-> TRUE]

\* C21: the check and the post of a PRD run are two steps, so two runs on
\* one issue may both post; when two runs whose listings succeeded have both
\* put a PRD comment on the issue, each of them listed before the comment of
\* the other was there: neither saw a marker when it looked.
C21_BothPassedCheck ==
  \A t, u \in PRDRuns :
     /\ t # u
     /\ Listed(t) /\ Listed(u)
     /\ MarkerPosts(t) # <<>> /\ MarkerPosts(u) # <<>>
     => ~HasPRD(loc[t].listing) /\ ~HasPRD(loc[u].listing)

\* Two runs on an issue without a PRD comment both listed successfully, both
\* saw no marker, and the issue now carries a PRD comment of each.
C21_Witness ==
  \E t, u \in PRDRuns :
     /\ t # u
     /\ issue[t].number = issue[u].number
     /\ Listed(t) /\ Listed(u)
     /\ ~HasPRD(loc[t].listing) /\ ~HasPRD(loc[u].listing)
     /\ pc[t] = "done" /\ pc[u] = "done"
     /\ Len(BotPRDComments) = 2
     /\ BotPRDComments[1].by # BotPRDComments[2].by

\* ------------------------------------------------------------ C22

\* The first generator call of run t was the draft, and it failed.
DraftFailed(t) ==
  /\ gen[t] # <<>>
  /\ gen[t][1].stage = "draft"
  /\ gen[t][1].err

\* C22: when the draft fails, generatePRD returns an error after that one
\* call: the language and the translation are never asked for, the run ends
\* as failed and makes no postComment call, so no comment with the marker
\* comes from it.
C22_DraftFatal ==
  \A t \in PRDRuns :
     DraftFailed(t) =>
       /\ Len(gen[t]) = 1
       /\ steps[t][Len(steps[t])] = [step |-> "generatePRD", ok |-> FALSE]
       /\ pc[t] = "done"
       /\ loc[t].outcome = "failed"
       /\ posts[t] = <<>>
       /\ \A k \in 1..Len(comments) : comments[k].by # t

C22_Witness ==
  \E t \in PRDRuns :
     /\ DraftFailed(t)
     /\ pc[t] = "done"
     /\ steps[t][Len(steps[t])].step = "generatePRD"

\* ------------------------------------------------------------ C23

\* The positions of the comments of cs whose body holds the marker.
Marked(cs) == {k \in 1..Len(cs) : Contains(cs[k].body, PRDIdentifier)}

\* The greatest of a non-empty set of positions.
Greatest(S) == CHOOSE k \in S : \A j \in S : j <= k

\* C23: on every comment sequence findPRDComment returns the comment at the
\* greatest position whose body holds the marker, and none exactly when no
\* body holds it; a sub-task run whose listing succeeded calls the generator
\* at most once, with the whole body of that one comment and nothing else,
\* and does not call it when there is none.
C23_NewestPRD ==
  /\ LET found == findPRDComment(comments, TRUE).comment IN
       /\ found = Nil <=> Marked(comments) = {}
       /\ Marked(comments) # {} =>
            /\ found.id = Greatest(Marked(comments))
            /\ found.body = comments[Greatest(Marked(comments))].body
  /\ \A t \in SubTaskRuns :
       Listed(t) =>
         LET cs == loc[t].listing IN
         IF Marked(cs) = {}
         THEN gen[t] = <<>> /\ loc[t].prd = Nil
         ELSE /\ loc[t].prd.body = cs[Greatest(Marked(cs))].body
              /\ Len(gen[t]) <= 1
              /\ \A k \in 1..Len(gen[t]) :
                   /\ gen[t][k].stage = "subtasks"
                   /\ gen[t][k].args = <<cs[Greatest(Marked(cs))].body>>

\* A sub-task run called the generator on an issue that held two comments
\* with the marker, different in body, followed by a comment without it.
C23_Witness ==
  \E t \in SubTaskRuns :
     /\ Listed(t)
     /\ Len(gen[t]) = 1
     /\ LET cs == loc[t].listing IN
        /\ Cardinality(Marked(cs)) >= 2
        /\ Greatest(Marked(cs)) < Len(cs)
        /\ \E k \in Marked(cs) : cs[k].body # cs[Greatest(Marked(cs))].body

\* ------------------------------------------------------------ C24

\* What follows the prefix on the first "Files:" line of a body that has one.
AfterPrefix(body) ==
  LET first == CHOOSE k \in FilesLines(body) : \A j \in FilesLines(body) : k <= j
  IN TrimSpace(TrimPrefix(TrimSpace(Lines(body)[first]), <<"Files:">>))

\* The comma-separated entries of a text, trimmed, by the positions of its
\* commas: the k-th entry lies between the (k-1)-th and the k-th comma.
Entries(txt) ==
  LET commas == {k \in 1..Len(txt) : txt[k] = ","}
      n == Cardinality(commas)
      Before(k) == IF k = 0 THEN 0
                   ELSE CHOOSE c \in commas :
                          Cardinality({d \in commas : d <= c}) = k
      After(k) == IF k = n THEN Len(txt) + 1 ELSE Before(k + 1)
  IN [k \in 1..(n + 1) |-> TrimSpace(SubSeq(txt, Before(k - 1) + 1, After(k - 1) - 1))]

\* The list the specification describes for a body.
ListedFiles(body) ==
  IF FilesLines(body) = {} THEN <<>>
  ELSE IF AfterPrefix(body) = <<>> THEN <<>>
  ELSE Entries(AfterPrefix(body))

\* C24: parseFilePathsFromIssue returns the trimmed comma-separated entries,
\* in order, of the first line that, trimmed, begins with "Files:", and the
\* empty list when there is no such line or only white space after its
\* prefix, whatever later "Files:" lines hold; and the run fails at the
\* parse step, with nothing done after it, exactly when that list is empty.
C24_FirstFilesLine ==
  \A t \in FeatureRuns :
     pc[t] # "start" =>
       LET files == ListedFiles(issue[t].body) IN
       /\ parseFilePathsFromIssue(issue[t].body) = files
       /\ loc[t].filesToModify = files
       /\ steps[t][1] = [step |-> "parse", ok |-> files # <<>>]
       /\ files = <<>> <=> /\ pc[t] = "done"
                           /\ Len(steps[t]) = 1
                           /\ loc[t].outcome = "failed"
                           /\ loc[t].reason = ReasonNoFiles

\* A run got past the parse step with the two trimmed entries of the first
\* of two "Files:" lines.
C24_Witness ==
  \E t \in FeatureRuns :
     /\ pc[t] # "start"
     /\ Cardinality(FilesLines(issue[t].body)) = 2
     /\ loc[t].filesToModify = << <<"a.go">>, <<"b.go">> >>
     /\ steps[t][1].ok

\* ------------------------------------------------------------ C29

\* The paths run t handed to the patch agent: the arguments of its gemini
\* process after the prompt, "-y" and "-a".
AgentPaths(t) ==
  UNION {{c.args[k] : k \in 4..Len(c.args)} :
           c \in {cmds[t][j] : j \in {i \in 1..Len(cmds[t]) : cmds[t][i].name = "gemini"}}}

\* C29: in a run that got past the parse step every entry of the list, and
\* every path handed to the patch agent, is a non-empty string.
C29_NonEmptyPaths ==
  \A t \in FeatureRuns :
     steps[t] # <<>> /\ steps[t][1].ok =>
       /\ \A k \in 1..Len(loc[t].filesToModify) : loc[t].filesToModify[k] # <<>>
       /\ \A path \in AgentPaths(t) : path # <<>>

\* ------------------------------------------------------------ C25

\* Every listing and every post of the PRD runs so far succeeded.
ListingAndPostingSucceed ==
  \A t \in PRDRuns : \A k \in 1..Len(steps[t]) :
     steps[t][k].step \in {"list", "post"} => steps[t][k].ok

\* The PRD runs that made a postComment call.
PostingRuns == {t \in PRDRuns : posts[t] # <<>>}

\* C25: when the PRD runs on one issue come one after the other, and their
\* listings and posts succeed, one run at most posts, and it posts once;
\* every run that comes after it finds the artifact, be it the full one or
\* the English-only one, and ends as skipped without fetching the README,
\* calling the generator or posting.
C25_SequentialIdempotent ==
  ListingAndPostingSucceed =>
    /\ Cardinality(PostingRuns) <= 1
    /\ \A t \in PostingRuns :
         /\ Len(posts[t]) = 1
         /\ Contains(posts[t][1].body, PRDIdentifier)
         /\ Len(BotPRDComments) = 1
         /\ \A u \in PRDRuns :
              u > t /\ pc[u] # "start" =>
                /\ pc[u] = "done"
                /\ loc[u].outcome = "skipped"
                /\ steps[u] = <<[step |-> "list", ok |-> TRUE]>>
                /\ gen[u] = <<>>
                /\ posts[u] = <<>>

\* A first run posted the English-only artifact, and a second run, started
\* after the first had ended, found it and ended as skipped.
C25_Witness ==
  \E t, u \in PRDRuns :
     /\ t < u
     /\ ListingAndPostingSucceed
     /\ TranslationFailed(t)
     /\ Len(posts[t]) = 1
     /\ pc[u] = "done"
     /\ loc[u].outcome = "skipped"

\* ------------------------------------------------------------ C26

\* How a task may end: completed, skipped (a PRD was there), failed, or, for
\* the sub-task pipeline, told the user that there is no PRD.
TerminalOutcomes == {"completed", "skipped", "failed", "no_prd"}

\* Task t has ended.
Ended(t) == pc[t] = "done" /\ loc[t].outcome \in TerminalOutcomes

\* C26: a task that was started reaches its end, in one of the terminal
\* outcomes; until then it stays the task it was started as, and once ended
\* it stays ended; and a directory that a feature run created is removed.
C26_RunsToCompletion ==
  /\ \A t \in Tasks : (kind[t] \in Handlers) ~> Ended(t)
  /\ \A t \in Tasks : (kind[t] = "feat" /\ loc[t].tempDir \in dirs)
                        ~> (pc[t] = "done" /\ loc[t].tempDir \notin dirs)
  /\ [][\A t \in Tasks :
          /\ kind[t] \in Handlers => kind'[t] = kind[t]
          /\ Ended(t) => Ended(t)']_vars

\* A feature run created a workspace, failed at a later stage, and has
\* ended with the workspace removed.
C26_Witness ==
  \E t \in FeatureRuns :
     /\ Ended(t)
     /\ loc[t].outcome = "failed"
     /\ loc[t].deferred
     /\ cmds[t] # <<>>
     /\ loc[t].tempDir \notin dirs

\* ------------------------------------------------------------ C27

\* Run t could not fetch or decode the README.
ReadmeFailed(t) ==
  \E k \in 1..Len(steps[t]) : steps[t][k] = [step |-> "readme", ok |-> FALSE]

\* C27: a PRD run that cannot fetch or decode the README ends there: it
\* never calls the generator and makes no postComment call, so neither a
\* PRD nor a diagnostic of that run comes to the issue.
C27_ReadmeFailure ==
  \A t \in PRDRuns :
     ReadmeFailed(t) =>
       /\ pc[t] = "done"
       /\ loc[t].outcome = "failed"
       /\ steps[t][Len(steps[t])].step = "readme"
       /\ gen[t] = <<>>
       /\ posts[t] = <<>>
       /\ \A k \in 1..Len(comments) : comments[k].by # t

\* A PRD run on an issue without a PRD comment ended on the README.
C27_Witness ==
  \E t \in PRDRuns :
     /\ ReadmeFailed(t)
     /\ pc[t] = "done"
     /\ ~HasPRD(comments)

\* ------------------------------------------------------------ C28

\* The listing of run t failed.
ListFailed(t) == steps[t] # <<>> /\ steps[t][1] = [step |-> "list", ok |-> FALSE]

\* Every step of run t after the listing succeeded.
RestSucceeded(t) == \A k \in 2..Len(steps[t]) : steps[t][k].ok

\* C28: a listing that fails counts as "no PRD" in both pipelines.  A PRD
\* run goes on to the README whatever the issue holds, is never skipped,
\* and, when its later steps succeed, ends having called the generator and
\* posted a PRD; a sub-task run never calls the generator and makes one
\* postComment call, with the message that tells the user to run need_prd.
C28_ListFailureIsNoPRD ==
  /\ \A t \in PRDRuns :
       ListFailed(t) =>
         /\ loc[t].outcome # "skipped"
         /\ Len(steps[t]) = 1 => pc[t] = "readme"
         /\ pc[t] = "done" /\ RestSucceeded(t) =>
              /\ gen[t] # <<>>
              /\ Len(posts[t]) = 1
              /\ Contains(posts[t][1].body, PRDIdentifier)
  /\ \A t \in SubTaskRuns :
       ListFailed(t) =>
         /\ gen[t] = <<>>
         /\ pc[t] \in {"noprd", "done"}
         /\ pc[t] = "noprd" => posts[t] = <<>>
         /\ pc[t] = "done" =>
              /\ Len(posts[t]) = 1
              /\ posts[t][1].body = noPrdMessage

\* A PRD run whose listing failed on an issue that held a PRD comment has
\* put a second one on the issue.
C28_Witness ==
  \E t \in PRDRuns :
     /\ ListFailed(t)
     /\ HasPRD(loc[t].listing)
     /\ pc[t] = "done"
     /\ MarkerPosts(t) # <<>>
     /\ Cardinality(Marked(comments)) > Cardinality(Marked(loc[t].listing))

====
